---- MODULE Spec2Model ----
(***************************************************************************)
(* Promotional-code redemption, balance ledger and login by emailed code   *)
(* of the speak backend.                                                   *)
(*                                                                         *)
(* The state is the relational store (code tables, activation tables and   *)
(* the balance table of both schema variants) together with the position   *)
(* of every in-flight HTTP handler.  Each action is one store statement of *)
(* a handler followed by the handler's local reaction to its result.       *)
(*                                                                         *)
(* The store is PostgreSQL reached through lib/pq (db.go): READ COMMITTED  *)
(* transactions, row locks held until commit or rollback, a statement that *)
(* fails inside a transaction puts the transaction in the failed state in  *)
(* which every later statement is answered with SQLSTATE 25P02.            *)
(***************************************************************************)
EXTENDS Integers, FiniteSets, Sequences, TLC

\* ---------------------------------------------------------------- bounds
NReq == 2
NUsers == 2
MaxTime == 3

Requests == 1..NReq
Users == 1..NUsers
Times == 0..MaxTime

VARIABLES
    layout,                 \* which schema objects exist in the store
    now,                    \* the wall clock, time.Now()
    promocode,              \* current-schema code table (committed rows)
    promocodes,             \* legacy code table (committed rows)
    promocode_activation,   \* current-schema activation table (committed rows)
    promocode_activations,  \* legacy activation table (committed rows)
    balance,                \* balance table (committed rows)
    adminLayout,            \* which of the admin-marking schema objects exist
    users,                  \* users table (committed rows)
    verifications,          \* verifications table (committed rows)
    pc,                     \* position of each handler
    req,                    \* the request each handler serves
    record,                 \* promocodeRecord resolved by findPromocodeByKeyword
    tx,                     \* the handler's transaction: state and pending writes
    resp,                   \* the response sent
    hist                    \* history of the request (not program state)

vars == <<layout, now, promocode, promocodes, promocode_activation,
          promocode_activations, balance, adminLayout, users, verifications,
          pc, req, record, tx, resp, hist>>

store == <<promocode, promocodes, promocode_activation, promocode_activations, balance>>

accounts == <<adminLayout, users, verifications>>

\* ------------------------------------------------------- schema layouts
\* current:   promocode, promocode_activation
\* legacy:    promocodes(promocode_id, is_active), promocode_activations
\* legacyOld: promocodes(id, active), promocode_activations
\* both:      all four tables (a migration in progress)
\* partial:   all four tables, promocode_activation still without the
\*            enable_time and quantity columns
\* legacyBare: as legacy, promocodes without the created_at column (a store
\*            codes are created in)
Layouts == {"current", "legacy", "legacyOld", "both", "partial"}

HasPromocode == layout \in {"current", "both", "partial"}
HasPromocodes == layout \in {"legacy", "legacyOld", "legacyBare", "both", "partial"}
PromocodesHasPromocodeId == layout \in {"legacy", "legacyBare", "both", "partial"}
HasActivation == layout \in {"current", "both", "partial"}
ActivationHasColumns == layout \in {"current", "both"}
HasActivations == layout \in {"legacy", "legacyOld", "legacyBare", "both", "partial"}

\* ------------------------------------------------------------ responses
Response(status, error, details) ==
    [status |-> status, error |-> error, details |-> details, balance |-> {}]

NoResponse == Response(0, "", FALSE)

BalanceResponse(q) ==
    [status |-> 200, error |-> "", details |-> FALSE, balance |-> {q}]

ActivatedResponse(q) ==
    [status |-> 200, error |-> "", details |-> FALSE, balance |-> {q}]

InternalError(error) == Response(500, error, TRUE)

AlreadyActivated == Response(400, "Promocode already activated by this user", FALSE)

unauthorizedResponse(token) ==
    Response(401,
             CASE token = "missing" -> "Missing authorization token"
               [] token = "badsig" -> "Invalid token signature"
               [] token = "expired" -> "Token expired"
               [] OTHER -> "Unauthorized",
             TRUE)

\* ---------------------------------------------------------------- inputs
Tokens == {"valid", "missing", "badsig", "expired", "malformed"}
RawKeywords == {"", " ", "K1", " K1 ", "K2", "KX"}

TrimSpace(s) ==
    CASE s = " " -> ""
      [] s = " K1 " -> "K1"
      [] OTHER -> s

NoRequest == [op |-> "none", user |-> 1, keyword |-> ""]
NoRecord == [ID |-> 0, Quantity |-> 0, IsActive |-> FALSE, variant |-> "none"]
NoTx == [state |-> "none", balIns |-> FALSE, upd |-> FALSE, quantity |-> 0,
         act |-> {}, legacyAct |-> {}]
NoHist == [fault |-> FALSE, committed |-> {}, interfered |-> FALSE,
           insert |-> "", insertLegacy |-> ""]

\* ------------------------------------------------------- Code Registry
\* Variant: the end of the window taken as exclusive.
computePromocodeActiveExclusiveEnd(start, end, t) ==
    /\ \A s \in start : ~(t < s)
    /\ \A e \in end : t < e

\* now.Before(start) and now.After(end) are strict, so both bounds are
\* inclusive; a NULL bound (the empty set) is unbounded.
computePromocodeActive(start, end, t) ==
    /\ \A s \in start : ~(t < s)
    /\ \A e \in end : ~(t > e)

\* SQLSTATE of a statement: "ok", "norows", or an error code; "conn" is a
\* failure below SQL (no *pq.Error).
IsError(res) == res \notin {"ok", "norows"}

SelectPromocode(keyword) ==
    IF ~HasPromocode THEN "42P01"
    ELSE IF \E p \in promocode : p.keyword = keyword THEN "ok"
    ELSE "norows"

PromocodeRow(keyword) == CHOOSE p \in promocode : p.keyword = keyword

SelectPromocodesLegacy(keyword) ==
    IF ~HasPromocodes THEN "42P01"
    ELSE IF ~PromocodesHasPromocodeId THEN "42703"
    ELSE IF \E p \in promocodes : p.keyword = keyword THEN "ok"
    ELSE "norows"

SelectPromocodesLegacyRetry(keyword) ==
    IF ~HasPromocodes THEN "42P01"
    ELSE IF PromocodesHasPromocodeId THEN "42703"
    ELSE IF \E p \in promocodes : p.keyword = keyword THEN "ok"
    ELSE "norows"

PromocodesRow(keyword) == CHOOSE p \in promocodes : p.keyword = keyword

\* ------------------------------------------------------------ the store
InTx(r) == tx[r].state \in {"open", "failed"}

\* A statement inside a transaction: refused with 25P02 once the transaction
\* has failed; otherwise a transport failure or the statement's own result.
StmtInTx(r, fault, base) ==
    IF tx[r].state = "failed" THEN "25P02"
    ELSE IF fault THEN "conn"
    ELSE base

StmtAuto(fault, base) == IF fault THEN "conn" ELSE base

HasBalanceRow(u) == \E b \in balance : b.user_id = u
BalanceRow(u) == CHOOSE b \in balance : b.user_id = u
BalanceOf(u) == IF HasBalanceRow(u) THEN BalanceRow(u).quantity ELSE 0

\* Another transaction holds an uncommitted insert of the user's balance row:
\* INSERT .. ON CONFLICT waits for it to end.
BalanceInsertPending(r, u) ==
    \E o \in Requests \ {r} : InTx(o) /\ req[o].user = u /\ tx[o].balIns

\* Variant: the UPDATE takes no row lock.
BalanceRowLockedNever(r, u) == FALSE

\* Another transaction holds the row lock of the user's balance row.
BalanceRowLocked(r, u) ==
    \E o \in Requests \ {r} : InTx(o) /\ req[o].user = u /\ (tx[o].balIns \/ tx[o].upd)

\* Another transaction holds an uncommitted insert of the same unique key.
ActivationKeyPending(r, id, u) ==
    \E o \in Requests \ {r} :
        InTx(o) /\ \E a \in tx[o].act : a.promocode_id = id /\ a.user_id = u

SelectActivation(id, u) ==
    IF ~HasActivation THEN "42P01"
    ELSE IF \E a \in promocode_activation : a.promocode_id = id /\ a.user_id = u THEN "ok"
    ELSE "norows"

SelectActivationsLegacy(id, u) ==
    IF ~HasActivations THEN "42P01"
    ELSE IF \E a \in promocode_activations : a.promocode_id = id /\ a.user_id = u THEN "ok"
    ELSE "norows"

\* The uniqueness constraint on promocode_activation (promocode_id, user_id).
ActivationUniqueViolation(id, u) ==
    \E a \in promocode_activation : a.promocode_id = id /\ a.user_id = u

InsertActivation(id, u) ==
    IF ~HasActivation THEN "42P01"
    ELSE IF ~ActivationHasColumns THEN "42703"
    ELSE IF ActivationUniqueViolation(id, u) THEN "23505"
    ELSE "ok"

InsertActivationsLegacy(id, u) ==
    IF ~HasActivations THEN "42P01" ELSE "ok"

\* ------------------------------------------------------- initial state
CodeWindows ==
    {[start |-> {}, end |-> {}], [start |-> {1}, end |-> {2}],
     [start |-> {1}, end |-> {}], [start |-> {}, end |-> {2}]}

NewCode(id, keyword, quantity, w) ==
    [id |-> id, keyword |-> keyword, quantity |-> quantity,
     start_time |-> w.start, end_time |-> w.end]

LegacyCode(id, keyword, quantity, active) ==
    [promocode_id |-> id, keyword |-> keyword, quantity |-> quantity, is_active |-> active]

\* variant is not a column: it remembers which code table the redeemed code
\* came from, so that rows can be told apart when ids of the two tables collide.
LegacyActivation(id, u, t, variant) ==
    [promocode_id |-> id, user_id |-> u, activated_at |-> t, variant |-> variant]

\* int64(math.Round(record.Quantity)) of a whole quantity
RoundQuantity(q) == q

\* Variant: the arguments of the insert out of order, the id in the quantity column.
NewActivationIdAsQuantity(id, u, t, q, variant) ==
    [promocode_id |-> id, user_id |-> u, enable_time |-> t,
     quantity |-> RoundQuantity(id), variant |-> variant]

NewActivation(id, u, t, q, variant) ==
    [promocode_id |-> id, user_id |-> u, enable_time |-> t,
     quantity |-> RoundQuantity(q), variant |-> variant]

\* ----------------------------------------------------------- user tables
\* A row of users.  admin is the user's admin marking in whichever schema
\* object carries it: the value of users.is_admin, the value of
\* users.role = 'admin' ("null" for a NULL column), or, for the tables admins
\* and user_roles, "t" for a user with a row there.
User(id, email, admin) == [user_id |-> id, email |-> email, admin |-> admin]

\* is_admin, role: the column of users that exists; admins, user_roles: the
\* table that exists; none: no admin marking in the schema.
AdminLayouts == {"is_admin", "role", "admins", "user_roles", "none"}

UserTables ==
    {{User(1, "a", "t"), User(2, "b", "f")},
     {User(1, "a", "t"), User(2, "b", "null")},
     {User(1, "a", "t")}}

\* The user tables of a store in which user 1 is the admin and user 2 is not.
PlainAccounts ==
    /\ adminLayout = "is_admin"
    /\ users = {User(1, "a", "t"), User(2, "b", "f")}
    /\ verifications = {}

InitCodes ==
    /\ layout \in Layouts
    /\ now = 0
    /\ \E w \in CodeWindows :
        promocode =
            IF layout = "current"
            THEN {NewCode(1, "K1", 2, w), NewCode(2, "K2", 3, [start |-> {}, end |-> {}])}
            ELSE IF layout \in {"both", "partial"} THEN {NewCode(1, "K1", 2, w)}
            ELSE {}
    /\ \E active \in BOOLEAN :
        promocodes =
            IF layout \in {"legacy", "legacyOld"} THEN {LegacyCode(1, "K1", 2, active)}
            ELSE IF layout \in {"both", "partial"} /\ active THEN {LegacyCode(1, "K2", 3, TRUE)}
            ELSE {}
    /\ promocode_activation = {}
    \* rows written under the legacy schema before the migration began
    /\ promocode_activations \in
            IF layout = "both" /\ promocodes # {}
            THEN {{}, {LegacyActivation(1, 1, 0, "legacy")}}
            ELSE {{}}
    \* the credits of those rows; in the current layout user 1 may hold the
    \* zero row an earlier balance read left behind
    /\ \E zero \in BOOLEAN :
        balance = {[user_id |-> a.user_id, quantity |-> 3] : a \in promocode_activations}
                    \cup (IF zero /\ layout = "current"
                          THEN {[user_id |-> 1, quantity |-> 0]} ELSE {})
    /\ pc = [r \in Requests |-> "idle"]
    /\ req = [r \in Requests |-> NoRequest]
    /\ record = [r \in Requests |-> NoRecord]
    /\ tx = [r \in Requests |-> NoTx]
    /\ resp = [r \in Requests |-> NoResponse]
    /\ hist = [r \in Requests |-> NoHist]

Init == InitCodes /\ PlainAccounts

\* -------------------------------------------------------------- helpers
Finish(r, response) ==
    /\ pc' = [pc EXCEPT ![r] = "done"]
    /\ resp' = [resp EXCEPT ![r] = response]

Goto(r, label) ==
    /\ pc' = [pc EXCEPT ![r] = label]
    /\ UNCHANGED resp

NoteFault(r, fault) ==
    hist' = [hist EXCEPT ![r].fault = @ \/ fault]

\* Variant: no deferred rollback, the transaction is left as it is.
RollbackMissing(r) == UNCHANGED tx

\* defer tx.Rollback(): pending writes are discarded, locks released
Rollback(r) == tx' = [tx EXCEPT ![r] = [NoTx EXCEPT !.state = "rolledback"]]

Tick ==
    /\ now < MaxTime
    /\ now' = now + 1
    /\ UNCHANGED <<layout, accounts, store, pc, req, record, tx, resp, hist>>

\* ------------------------------------------------------ request arrival
\* ActivatePromocode, lines 408-427: authentication, body parsing, keyword
\* trimming.  GetBalance, lines 13-17: authentication.
Start(r) ==
    /\ pc[r] = "idle"
    /\ \E op \in {"redeem", "balance"}, u \in Users, token \in Tokens :
        IF token # "valid"
        THEN /\ req' = [req EXCEPT ![r] = [op |-> op, user |-> u, keyword |-> ""]]
             /\ Finish(r, unauthorizedResponse(token))
        ELSE IF op = "balance"
        THEN /\ req' = [req EXCEPT ![r] = [op |-> op, user |-> u, keyword |-> ""]]
             /\ Goto(r, "balSelect")
        ELSE \E bodyOk \in BOOLEAN, raw \in RawKeywords :
            LET keyword == TrimSpace(raw) IN
            /\ req' = [req EXCEPT ![r] = [op |-> op, user |-> u,
                                           keyword |-> IF bodyOk THEN keyword ELSE ""]]
            /\ IF ~bodyOk THEN Finish(r, Response(400, "Invalid request payload", TRUE))
               ELSE IF keyword = ""
               THEN Finish(r, Response(400, "Promocode keyword is required", FALSE))
               ELSE Goto(r, "findNew")
    /\ UNCHANGED <<layout, accounts, now, store, record, tx, hist>>

\* ActivatePromocode, lines 429-446: the reaction to findPromocodeByKeyword's
\* result once a record was found.
Validate(r, rec) ==
    /\ record' = [record EXCEPT ![r] = rec]
    /\ IF ~rec.IsActive
       THEN Finish(r, Response(400, "Promocode is not active", FALSE))
       ELSE Goto(r, "begin")

\* ActivatePromocode, lines 430-440: findPromocodeByKeyword returned an error.
FindFailed(r, res) ==
    /\ UNCHANGED record
    /\ IF res = "norows"
       THEN Finish(r, Response(404, "Promocode not found", FALSE))
       ELSE Finish(r, InternalError("Failed to fetch promocode"))

\* findPromocodeByKeyword, lines 748-781: the current-schema lookup.
RedeemFindNew(r) ==
    /\ pc[r] = "findNew"
    /\ \E fault \in BOOLEAN :
        LET res == StmtAuto(fault, SelectPromocode(req[r].keyword)) IN
        /\ NoteFault(r, fault)
        /\ IF res = "ok"
           THEN LET p == PromocodeRow(req[r].keyword) IN
                Validate(r, [ID |-> p.id, Quantity |-> p.quantity,
                             IsActive |-> computePromocodeActive(p.start_time, p.end_time, now),
                             variant |-> "current"])
           ELSE IF res \in {"norows", "42P01", "42703"}
           THEN Goto(r, "findLegacy") /\ UNCHANGED record
           ELSE FindFailed(r, res)
    /\ UNCHANGED <<layout, accounts, now, store, req, tx>>

\* findPromocodeByKeyword, lines 783-806: the legacy lookup.
RedeemFindLegacy(r) ==
    /\ pc[r] = "findLegacy"
    /\ \E fault \in BOOLEAN :
        LET res == StmtAuto(fault, SelectPromocodesLegacy(req[r].keyword)) IN
        /\ NoteFault(r, fault)
        /\ IF res = "ok"
           THEN LET p == PromocodesRow(req[r].keyword) IN
                Validate(r, [ID |-> p.promocode_id, Quantity |-> p.quantity,
                             IsActive |-> p.is_active, variant |-> "legacy"])
           ELSE IF res = "42703"
           THEN Goto(r, "findLegacyRetry") /\ UNCHANGED record
           \* 42P01 becomes the plain error "promocodes table not found"
           ELSE FindFailed(r, res)
    /\ UNCHANGED <<layout, accounts, now, store, req, tx>>

\* Variant: a failure of the lookup by the older column names starts the
\* legacy lookup again.
RedeemFindLegacyRetryAgain(r) ==
    /\ pc[r] = "findLegacyRetry"
    /\ \E fault \in BOOLEAN :
        LET res == StmtAuto(fault, SelectPromocodesLegacyRetry(req[r].keyword)) IN
        /\ NoteFault(r, fault)
        /\ IF res = "ok"
           THEN LET p == PromocodesRow(req[r].keyword) IN
                Validate(r, [ID |-> p.promocode_id, Quantity |-> p.quantity,
                             IsActive |-> p.is_active, variant |-> "legacy"])
           ELSE IF res = "norows" THEN FindFailed(r, res)
           ELSE Goto(r, "findLegacy") /\ UNCHANGED record
    /\ UNCHANGED <<layout, accounts, now, store, req, tx>>

\* findPromocodeByKeyword, lines 791-798: the lookup by the older column names.
RedeemFindLegacyRetry(r) ==
    /\ pc[r] = "findLegacyRetry"
    /\ \E fault \in BOOLEAN :
        LET res == StmtAuto(fault, SelectPromocodesLegacyRetry(req[r].keyword)) IN
        /\ NoteFault(r, fault)
        /\ IF res = "ok"
           THEN LET p == PromocodesRow(req[r].keyword) IN
                Validate(r, [ID |-> p.promocode_id, Quantity |-> p.quantity,
                             IsActive |-> p.is_active, variant |-> "legacy"])
           ELSE FindFailed(r, res)
    /\ UNCHANGED <<layout, accounts, now, store, req, tx>>

\* ActivatePromocode, lines 448-455: db.DB.Begin().
RedeemBegin(r) ==
    /\ pc[r] = "begin"
    /\ \E fault \in BOOLEAN :
        /\ NoteFault(r, fault)
        /\ IF fault
           THEN /\ Finish(r, InternalError("Failed to start transaction"))
                /\ UNCHANGED tx
           ELSE /\ Goto(r, "check")
                /\ tx' = [tx EXCEPT ![r] = [NoTx EXCEPT !.state = "open"]]
    /\ UNCHANGED <<layout, accounts, now, store, req, record>>

\* The transaction after a statement: failed when the statement failed.
AfterStmt(r, res) ==
    tx' = [tx EXCEPT ![r].state = IF IsError(res) THEN "failed" ELSE @]

\* Variant: no redemption found leads straight to the insert, the credit left out.
CheckReactionSkipCredit(r, res) ==
    IF res = "ok" THEN Finish(r, AlreadyActivated) /\ Rollback(r)
    ELSE IF res = "norows" THEN Goto(r, "insert") /\ AfterStmt(r, res)
    ELSE IF res \in {"42P01", "42703"} THEN Goto(r, "checkLegacy") /\ AfterStmt(r, res)
    ELSE Finish(r, InternalError("Failed to check promocode activation")) /\ Rollback(r)

\* ActivatePromocode, lines 457-502: the prior-redemption check.
CheckReaction(r, res) ==
    IF res = "ok" THEN Finish(r, AlreadyActivated) /\ Rollback(r)
    ELSE IF res = "norows" THEN Goto(r, "ensure") /\ AfterStmt(r, res)
    ELSE IF res \in {"42P01", "42703"} THEN Goto(r, "checkLegacy") /\ AfterStmt(r, res)
    ELSE Finish(r, InternalError("Failed to check promocode activation")) /\ Rollback(r)

RedeemCheck(r) ==
    /\ pc[r] = "check"
    /\ \E fault \in BOOLEAN :
        LET res == StmtInTx(r, fault, SelectActivation(record[r].ID, req[r].user)) IN
        /\ NoteFault(r, fault)
        /\ CheckReaction(r, res)
    /\ UNCHANGED <<layout, accounts, now, store, req, record>>

\* ActivatePromocode, lines 468-484: the check against the legacy table, in
\* the same transaction.
CheckLegacyReaction(r, res) ==
    IF res = "ok" THEN Finish(r, AlreadyActivated) /\ Rollback(r)
    ELSE IF res = "norows" THEN Goto(r, "ensure") /\ AfterStmt(r, res)
    ELSE Finish(r, InternalError("Failed to check legacy promocode activation")) /\ Rollback(r)

RedeemCheckLegacy(r) ==
    /\ pc[r] = "checkLegacy"
    /\ \E fault \in BOOLEAN :
        LET res == StmtInTx(r, fault, SelectActivationsLegacy(record[r].ID, req[r].user)) IN
        /\ NoteFault(r, fault /\ tx[r].state # "failed")
        /\ CheckLegacyReaction(r, res)
    /\ UNCHANGED <<layout, accounts, now, store, req, record>>

\* ensureBalanceRecord, balance.go lines 43-52: INSERT .. ON CONFLICT DO NOTHING
\* inside the transaction.
RedeemEnsure(r) ==
    /\ pc[r] = "ensure"
    /\ ~BalanceInsertPending(r, req[r].user)
    /\ \E fault \in BOOLEAN :
        LET res == StmtInTx(r, fault, "ok") IN
        /\ NoteFault(r, fault)
        /\ IF IsError(res)
           THEN Finish(r, InternalError("Failed to prepare balance record")) /\ Rollback(r)
           ELSE /\ Goto(r, "credit")
                /\ tx' = [tx EXCEPT ![r].balIns = ~HasBalanceRow(req[r].user)]
    /\ UNCHANGED <<layout, accounts, now, store, req, record>>

\* Variant: SET quantity = $1.
CreditedQuantityOverwrite(old, q) == q

\* UPDATE balance SET quantity = quantity + $1
CreditedQuantity(old, q) == old + q

\* Variant: the credit issued on the pool (db.DB.Exec) instead of the
\* transaction, so that it is committed at once.
RedeemCreditOutsideTx(r) ==
    /\ pc[r] = "credit"
    /\ ~BalanceRowLocked(r, req[r].user)
    /\ \E fault \in BOOLEAN :
        LET u == req[r].user IN
        /\ NoteFault(r, fault)
        /\ IF fault
           THEN Finish(r, InternalError("Failed to update balance")) /\ Rollback(r)
                /\ UNCHANGED balance
           ELSE /\ Goto(r, "insert")
                /\ UNCHANGED tx
                /\ balance' = {b \in balance : b.user_id # u} \cup
                        {[user_id |-> b.user_id, quantity |-> b.quantity + record[r].Quantity] :
                            b \in {x \in balance : x.user_id = u}}
    /\ UNCHANGED <<layout, accounts, now, promocode, promocodes, promocode_activation,
                   promocode_activations, req, record>>

\* ActivatePromocode, lines 511-519: the credit, inside the transaction.  The
\* row is the one the transaction inserted or the committed one, locked from
\* here to the end of the transaction.
RedeemCredit(r) ==
    /\ pc[r] = "credit"
    /\ ~BalanceRowLocked(r, req[r].user)
    /\ \E fault \in BOOLEAN :
        LET res == StmtInTx(r, fault, "ok")
            u == req[r].user
        IN
        /\ NoteFault(r, fault)
        /\ IF IsError(res)
           THEN Finish(r, InternalError("Failed to update balance")) /\ Rollback(r)
           ELSE /\ Goto(r, "insert")
                /\ tx' = [tx EXCEPT
                            ![r].upd = tx[r].balIns \/ HasBalanceRow(u),
                            ![r].quantity =
                                IF tx[r].balIns THEN CreditedQuantity(0, record[r].Quantity)
                                ELSE IF HasBalanceRow(u)
                                THEN CreditedQuantity(BalanceOf(u), record[r].Quantity)
                                ELSE 0]
    /\ UNCHANGED <<layout, accounts, now, store, req, record>>

\* Variant: no case for 23505, the violation falls to the default branch.
InsertReactionNoConflictCase(r, res, row) ==
    IF res = "ok"
    THEN Goto(r, "commit") /\ tx' = [tx EXCEPT ![r].act = {row}]
    ELSE IF res \in {"42703", "42P01"}
    THEN Goto(r, "insertLegacy") /\ AfterStmt(r, res)
    ELSE Finish(r, InternalError("Failed to record promocode activation")) /\ Rollback(r)

\* ActivatePromocode, lines 526-555: the reaction to the result of the insert
\* into promocode_activation.
InsertReaction(r, res, row) ==
    IF res = "ok"
    THEN Goto(r, "commit") /\ tx' = [tx EXCEPT ![r].act = {row}]
    ELSE IF res \in {"42703", "42P01"}
    THEN Goto(r, "insertLegacy") /\ AfterStmt(r, res)
    ELSE IF res = "23505"
    THEN Finish(r, AlreadyActivated) /\ Rollback(r)
    ELSE Finish(r, InternalError("Failed to record promocode activation")) /\ Rollback(r)

\* ActivatePromocode, lines 521-526: the insert of the redemption row.
RedeemInsert(r) ==
    /\ pc[r] = "insert"
    /\ ~ActivationKeyPending(r, record[r].ID, req[r].user)
    /\ \E fault \in BOOLEAN :
        LET res == StmtInTx(r, fault, InsertActivation(record[r].ID, req[r].user)) IN
        /\ hist' = [hist EXCEPT ![r].fault = @ \/ fault, ![r].insert = res]
        /\ InsertReaction(r, res,
                NewActivation(record[r].ID, req[r].user, now, record[r].Quantity,
                              record[r].variant))
    /\ UNCHANGED <<layout, accounts, now, store, req, record>>

\* ActivatePromocode, lines 530-538: the retry against promocode_activations.
InsertLegacyReaction(r, res, row) ==
    IF res = "ok"
    THEN Goto(r, "commit") /\ tx' = [tx EXCEPT ![r].legacyAct = {row}]
    ELSE Finish(r, InternalError("Failed to record promocode activation")) /\ Rollback(r)

RedeemInsertLegacy(r) ==
    /\ pc[r] = "insertLegacy"
    /\ \E fault \in BOOLEAN :
        LET res == StmtInTx(r, fault, InsertActivationsLegacy(record[r].ID, req[r].user)) IN
        /\ hist' = [hist EXCEPT ![r].fault = @ \/ (fault /\ tx[r].state # "failed"),
                                ![r].insertLegacy = res]
        /\ InsertLegacyReaction(r, res,
                LegacyActivation(record[r].ID, req[r].user, now, record[r].variant))
    /\ UNCHANGED <<layout, accounts, now, store, req, record>>

\* The balance table after the transaction's writes are committed.
CommittedBalance(r) ==
    LET u == req[r].user IN
    IF tx[r].upd
    THEN {b \in balance : b.user_id # u} \cup {[user_id |-> u, quantity |-> tx[r].quantity]}
    ELSE IF tx[r].balIns
    THEN balance \cup {[user_id |-> u, quantity |-> 0]}
    ELSE balance

\* ActivatePromocode, lines 557-562: tx.Commit().
RedeemCommit(r) ==
    /\ pc[r] = "commit"
    /\ \E fault \in BOOLEAN :
        IF fault \/ tx[r].state = "failed"
        THEN /\ Finish(r, InternalError("Failed to complete activation"))
             /\ Rollback(r)
             /\ hist' = [hist EXCEPT ![r].fault = @ \/ fault]
             /\ UNCHANGED store
        ELSE /\ Goto(r, "readBalance")
             /\ balance' = CommittedBalance(r)
             /\ promocode_activation' = promocode_activation \cup tx[r].act
             /\ promocode_activations' = promocode_activations \cup tx[r].legacyAct
             /\ tx' = [tx EXCEPT ![r] = [NoTx EXCEPT !.state = "committed"]]
             /\ hist' = [o \in Requests |->
                            IF o = r
                            THEN [hist[o] EXCEPT !.committed = {tx[r].quantity}]
                            ELSE IF pc[o] = "readBalance" /\ req[o].user = req[r].user
                            THEN [hist[o] EXCEPT !.interfered = TRUE]
                            ELSE hist[o]]
             /\ UNCHANGED <<promocode, promocodes>>
    /\ UNCHANGED <<layout, accounts, now, req, record>>

\* SELECT quantity FROM balance WHERE user_id = $1
SelectBalance(u) == IF HasBalanceRow(u) THEN "ok" ELSE "norows"

\* ActivatePromocode, lines 564-578: the read-back of the balance, outside the
\* transaction, and the success response.
RedeemReadBalance(r) ==
    /\ pc[r] = "readBalance"
    /\ \E fault \in BOOLEAN :
        LET res == StmtAuto(fault, SelectBalance(req[r].user)) IN
        /\ NoteFault(r, fault)
        /\ IF res = "ok"
           THEN Finish(r, ActivatedResponse(BalanceOf(req[r].user)))
           ELSE Finish(r, InternalError("Failed to fetch updated balance"))
    /\ UNCHANGED <<layout, accounts, now, store, req, record, tx>>

\* GetBalance, balance.go lines 19-23 and 35-40: the read.
BalSelect(r) ==
    /\ pc[r] = "balSelect"
    /\ \E fault \in BOOLEAN :
        LET res == StmtAuto(fault, SelectBalance(req[r].user)) IN
        /\ NoteFault(r, fault)
        /\ IF res = "ok" THEN Finish(r, BalanceResponse(BalanceOf(req[r].user)))
           ELSE IF res = "norows" THEN Goto(r, "balInsert")
           ELSE Finish(r, InternalError("Failed to fetch balance"))
    /\ UNCHANGED <<layout, accounts, now, store, req, record, tx>>

\* Variant: ON CONFLICT (user_id) DO UPDATE SET quantity = 0.
BalInsertOverwrite(r) ==
    /\ pc[r] = "balInsert"
    /\ ~BalanceInsertPending(r, req[r].user)
    /\ \E fault \in BOOLEAN :
        /\ NoteFault(r, fault)
        /\ IF fault
           THEN /\ Finish(r, InternalError("Failed to initialize balance"))
                /\ UNCHANGED balance
           ELSE /\ Finish(r, BalanceResponse(0))
                /\ balance' = {b \in balance : b.user_id # req[r].user}
                                \cup {[user_id |-> req[r].user, quantity |-> 0]}
    /\ UNCHANGED <<layout, accounts, now, promocode, promocodes, promocode_activation,
                   promocode_activations, req, record, tx>>

\* GetBalance, balance.go lines 24-34: the lazy creation of the row.
BalInsert(r) ==
    /\ pc[r] = "balInsert"
    /\ ~BalanceInsertPending(r, req[r].user)
    /\ \E fault \in BOOLEAN :
        /\ NoteFault(r, fault)
        /\ IF fault
           THEN /\ Finish(r, InternalError("Failed to initialize balance"))
                /\ UNCHANGED balance
           ELSE /\ Finish(r, BalanceResponse(0))
                /\ balance' = IF HasBalanceRow(req[r].user) THEN balance
                              ELSE balance \cup {[user_id |-> req[r].user, quantity |-> 0]}
    /\ UNCHANGED <<layout, accounts, now, promocode, promocodes, promocode_activation,
                   promocode_activations, req, record, tx>>

Next ==
    \/ Tick
    \/ \E r \in Requests : Start(r)
    \/ \E r \in Requests : RedeemFindNew(r)
    \/ \E r \in Requests : RedeemFindLegacy(r)
    \/ \E r \in Requests : RedeemFindLegacyRetry(r)
    \/ \E r \in Requests : RedeemBegin(r)
    \/ \E r \in Requests : RedeemCheck(r)
    \/ \E r \in Requests : RedeemCheckLegacy(r)
    \/ \E r \in Requests : RedeemEnsure(r)
    \/ \E r \in Requests : RedeemCredit(r)
    \/ \E r \in Requests : RedeemInsert(r)
    \/ \E r \in Requests : RedeemInsertLegacy(r)
    \/ \E r \in Requests : RedeemCommit(r)
    \/ \E r \in Requests : RedeemReadBalance(r)
    \/ \E r \in Requests : BalSelect(r)
    \/ \E r \in Requests : BalInsert(r)

Spec == Init /\ [][Next]_vars

\* ============================================================ AddPromocode
\* The width of int64 in this model, in bits.
IntBits == 7
MaxInt64 == 2^(IntBits - 1) - 1
MinInt64 == -(2^(IntBits - 1))

\* generatePromocodeKeyword(8)
KeywordLen == 8

\* 30 * 24 * time.Hour in ticks of the clock: longer than the modelled horizon.
ThirtyDays == MaxTime + 1

\* A float64: NaN, an infinity, or whole + frac with frac one of 0, a
\* difference below 1e-9 ("eps") and one half.
Float(class, sign, whole, frac) ==
    [class |-> class, sign |-> sign, whole |-> whole, frac |-> frac]
Finite(whole, frac) == Float("finite", IF whole < 0 THEN -1 ELSE 1, whole, frac)
NaN == Float("nan", 1, 0, "0")
Inf(sign) == Float("inf", sign, 0, "0")

\* The quantity member of the request body, a json.RawMessage: absent, or a
\* JSON string (quoted) or another JSON value, with its text.
Raw(present, quoted, text) == [present |-> present, quoted |-> quoted, text |-> text]

QuantityInputs ==
    {Raw(FALSE, FALSE, ""), Raw(TRUE, FALSE, "null"), Raw(TRUE, TRUE, " "),
     Raw(TRUE, FALSE, "10"), Raw(TRUE, TRUE, " 10 "), Raw(TRUE, FALSE, "10.5"),
     Raw(TRUE, FALSE, "0"), Raw(TRUE, FALSE, "-3"), Raw(TRUE, TRUE, "NaN"),
     Raw(TRUE, TRUE, "Inf"), Raw(TRUE, TRUE, "-Inf"), Raw(TRUE, TRUE, "abc"),
     Raw(TRUE, FALSE, "true"), Raw(TRUE, FALSE, "1e30"),
     Raw(TRUE, FALSE, "0.0000000001"), Raw(TRUE, FALSE, "2.0000000001")}

TrimSpaceText(s) ==
    CASE s = " " -> ""
      [] s = " 10 " -> "10"
      [] OTHER -> s

\* strconv.ParseFloat(text, 64): the value, or {} for a syntax error.  1e30 is
\* a finite value beyond the int64 range.
ParseFloat(text) ==
    CASE text = "10" -> {Finite(10, "0")}
      [] text = "10.5" -> {Finite(10, "half")}
      [] text = "0" -> {Finite(0, "0")}
      [] text = "-3" -> {Finite(-3, "0")}
      [] text = "NaN" -> {NaN}
      [] text = "Inf" -> {Inf(1)}
      [] text = "-Inf" -> {Inf(-1)}
      [] text = "1e30" -> {Finite(2^IntBits, "0")}
      [] text = "0.0000000001" -> {Finite(0, "eps")}
      [] text = "2.0000000001" -> {Finite(2, "eps")}
      [] OTHER -> {}

\* parseFlexibleQuantity: the parsed value, or an error.
parseFlexibleQuantity(raw) ==
    IF ~raw.present THEN [err |-> "quantity is required", value |-> {}]
    ELSE IF ~raw.quoted /\ raw.text = "null" THEN [err |-> "quantity is required", value |-> {}]
    ELSE LET trimmed == IF raw.quoted THEN TrimSpaceText(raw.text) ELSE raw.text IN
         IF raw.quoted /\ trimmed = "" THEN [err |-> "quantity is required", value |-> {}]
         ELSE IF ParseFloat(trimmed) = {} THEN [err |-> "invalid quantity", value |-> {}]
         ELSE [err |-> "", value |-> ParseFloat(trimmed)]

\* quantityValue <= 0 (false for NaN)
NotPositive(f) ==
    \/ f.class = "inf" /\ f.sign = -1
    \/ f.class = "finite" /\ (f.whole < 0 \/ (f.whole = 0 /\ f.frac = "0"))

IsNaNOrInf(f) == f.class \in {"nan", "inf"}

\* math.Round of a positive finite value: half away from zero
Round(f) == IF f.frac = "half" THEN f.whole + 1 ELSE f.whole

\* math.Abs(quantityValue - roundedQuantity) > 1e-9
NotIntegral(f) == f.frac = "half"

\* int64(x) of a float64: the value when it is in range; out of range the
\* result depends on the target (the smallest int64 on amd64, the largest on
\* arm64).
Int64(x) == IF MinInt64 <= x /\ x <= MaxInt64 THEN {x} ELSE {MinInt64, MaxInt64}

\* The validation of the quantity, lines 179-205: the error message, or "".
QuantityError(raw) ==
    LET parsed == parseFlexibleQuantity(raw) IN
    IF parsed.err # "" THEN "Invalid quantity"
    ELSE LET f == CHOOSE v \in parsed.value : TRUE IN
         IF NotPositive(f) THEN "Quantity must be greater than zero"
         ELSE IF IsNaNOrInf(f) THEN "Quantity must be a finite number"
         ELSE IF NotIntegral(f) THEN "Quantity must be an integer value"
         ELSE ""

\* strings.EqualFold(keyword, "none")
ToLower(s) == IF s \in {"NoNe", "NONE"} THEN "none" ELSE s
EqualFold(s, t) == ToLower(s) = ToLower(t)

CreateKeywords == {"", " ", "NoNe", "K1", "K2", "KN"}

Charset == <<"A", "B", "C", "D", "E", "F", "G", "H", "I", "J", "K", "L", "M",
             "N", "O", "P", "Q", "R", "S", "T", "U", "V", "W", "X", "Y", "Z",
             "0", "1", "2", "3", "4", "5", "6", "7", "8", "9">>

\* what rand.Read may deliver
RandomBytes ==
    {[i \in 1..KeywordLen |-> (36 * (i - 1)) % 256], [i \in 1..KeywordLen |-> 255 - i]}

RECURSIVE Join(_)
Join(chars) == IF chars = <<>> THEN "" ELSE Head(chars) \o Join(Tail(chars))

\* generatePromocodeKeyword: charset[int(bytes[i]) % len(charset)] of every byte
generatePromocodeKeyword(bytes) ==
    Join([i \in 1..Len(bytes) |-> Charset[(bytes[i] % Len(Charset)) + 1]])

\* start_time and end_time of the request body: omitted, blank, not a time
\* of a supported layout, or a time.
TimeInput(kind, t) == [kind |-> kind, t |-> t]
TimeInputs ==
    {TimeInput("omitted", 0), TimeInput("blank", 0), TimeInput("bad", 0),
     TimeInput("time", 1), TimeInput("time", 2)}

\* Variant: an end equal to the start is let through.
resolvePromocodeTimesEndNotBefore(start, end, t) ==
    IF start.kind = "bad" \/ end.kind = "bad"
    THEN [err |-> "unsupported time format", start |-> 0, end |-> 0]
    ELSE LET startTime == IF start.kind = "time" THEN start.t ELSE t
             endTime == IF end.kind = "time" THEN end.t ELSE startTime + ThirtyDays
         IN IF endTime < startTime
            THEN [err |-> "end time must be after start time", start |-> 0, end |-> 0]
            ELSE [err |-> "", start |-> startTime, end |-> endTime]

\* resolvePromocodeTimes, lines 352-386
resolvePromocodeTimes(start, end, t) ==
    IF start.kind = "bad" \/ end.kind = "bad"
    THEN [err |-> "unsupported time format", start |-> 0, end |-> 0]
    ELSE LET startTime == IF start.kind = "time" THEN start.t ELSE t
             endTime == IF end.kind = "time" THEN end.t ELSE startTime + ThirtyDays
         IN IF ~(endTime > startTime)
            THEN [err |-> "end time must be after start time", start |-> 0, end |-> 0]
            ELSE [err |-> "", start |-> startTime, end |-> endTime]

\* The promocodeRecord-like locals of AddPromocode once the body is validated.
\* generated, parsed, startGiven and endGiven remember the inputs; they are
\* not program state.
Creation(keyword, generated, quantity, parsed, isActive, times, startGiven, endGiven) ==
    [keyword |-> keyword, generated |-> generated, quantityInt |-> quantity,
     parsed |-> parsed, isActive |-> isActive,
     startTime |-> times.start, endTime |-> times.end,
     startGiven |-> startGiven, endGiven |-> endGiven]

CreatedResponse(keyword, active, quantity) ==
    [status |-> 200, error |-> "", details |-> FALSE, balance |-> {},
     keyword |-> keyword, active |-> active, quantity |-> quantity]

\* The uniqueness constraint on the keyword column of a code table.
KeywordUniqueViolation(table, keyword) == \E p \in table : p.keyword = keyword

PromocodesHasCreatedAt == layout # "legacyBare"

InsertPromocode(keyword) ==
    IF ~HasPromocode THEN "42P01"
    ELSE IF KeywordUniqueViolation(promocode, keyword) THEN "23505"
    ELSE "ok"

InsertPromocodesLegacy(keyword) ==
    IF ~HasPromocodes THEN "42P01"
    ELSE IF ~PromocodesHasPromocodeId \/ ~PromocodesHasCreatedAt THEN "42703"
    ELSE IF KeywordUniqueViolation(promocodes, keyword) THEN "23505"
    ELSE "ok"

InsertPromocodesLegacyRetry(keyword) ==
    IF ~HasPromocodes THEN "42P01"
    ELSE IF ~PromocodesHasPromocodeId THEN "42703"
    ELSE IF KeywordUniqueViolation(promocodes, keyword) THEN "23505"
    ELSE "ok"

\* the serial primary key of a code table
NextId(ids) == IF ids = {} THEN 1 ELSE (CHOOSE m \in ids : \A i \in ids : i <= m) + 1

\* AddPromocode, lines 144-148: authentication.
CreateStart(r) ==
    /\ pc[r] = "idle"
    /\ \E u \in Users, token \in Tokens, keyword \in CreateKeywords :
        /\ req' = [req EXCEPT ![r] = [op |-> "create", user |-> u, keyword |-> keyword]]
        /\ IF token # "valid"
           THEN Finish(r, unauthorizedResponse(token))
           ELSE Goto(r, "createAdmin")
    /\ UNCHANGED <<layout, accounts, now, store, record, tx, hist>>

\* AddPromocode, lines 164-205: the body, the name and the quantity.  The
\* response of a rejected body, NoResponse for a body let through.
BodyRejected(bodyOk, nameOk, raw) ==
    IF ~bodyOk THEN Response(400, "Invalid request payload", TRUE)
    ELSE IF ~nameOk THEN Response(400, "Name is required", FALSE)
    ELSE IF QuantityError(raw) = "Invalid quantity" THEN Response(400, "Invalid quantity", TRUE)
    ELSE IF QuantityError(raw) # "" THEN Response(400, QuantityError(raw), FALSE)
    ELSE NoResponse

\* AddPromocode, lines 205-230: the integer quantity, the keyword and the
\* window of a body let through.  Yields an error response or the Creation.
CreateResolved(r, raw, outOfRange, genErr, bytes, isActive, start, end) ==
    LET f == CHOOSE v \in parseFlexibleQuantity(raw).value : TRUE
        ints == Int64(Round(f))
        quantityInt == IF outOfRange = "amd64"
                       THEN CHOOSE q \in ints : \A o \in ints : q <= o
                       ELSE CHOOSE q \in ints : \A o \in ints : q >= o
        trimmed == TrimSpace(req[r].keyword)
        generated == trimmed = "" \/ EqualFold(trimmed, "none")
        times == resolvePromocodeTimes(start, end, now)
    IN
    IF generated /\ genErr
    THEN [resp |-> InternalError("Failed to generate promocode keyword"), rec |-> NoRecord]
    ELSE IF times.err # ""
    THEN [resp |-> Response(400, "Invalid start or end time", TRUE), rec |-> NoRecord]
    ELSE [resp |-> NoResponse,
          rec |-> Creation(IF generated THEN generatePromocodeKeyword(bytes) ELSE trimmed,
                           generated, quantityInt, f, isActive, times,
                           start.kind = "time", end.kind = "time")]

\* isUserAdmin, auth_utils.go lines 75-80: the four queries, in order.
AdminQueries == <<"is_admin", "role", "admins", "user_roles">>

\* The result of query i for user u: the first two read a column of the
\* user's row (Scan of a NULL into a bool fails), the last two are EXISTS
\* queries, which always deliver one row.
SelectAdmin(i, u) ==
    IF adminLayout # AdminQueries[i] THEN (IF i <= 2 THEN "42703" ELSE "42P01")
    ELSE IF i > 2 THEN "ok"
    ELSE IF ~\E x \in users : x.user_id = u THEN "norows"
    ELSE IF \E x \in users : x.user_id = u /\ x.admin = "null" THEN "scan"
    ELSE "ok"

\* Variant: every error of a query taken as "not an admin".
AdminCaseErrorAsUser(res, isAdmin) ==
    IF res = "ok" THEN (IF isAdmin THEN "admin" ELSE "user")
    ELSE IF res = "norows" THEN "user"
    ELSE IF res \in {"42703", "42P01"} THEN "continue"
    ELSE "user"

\* isUserAdmin, lines 85-98: the switch on the result of one query.
AdminCase(res, isAdmin) ==
    IF res = "ok" THEN (IF isAdmin THEN "admin" ELSE "user")
    ELSE IF res = "norows" THEN "user"
    ELSE IF res \in {"42703", "42P01"} THEN "continue"
    ELSE "error"

\* isUserAdmin, lines 82-101: the loop from query i on; the transport fails
\* at query faultAt (0: never).  "admin", "user", or "error".
RECURSIVE isUserAdminFrom(_, _, _)
isUserAdminFrom(i, u, faultAt) ==
    IF i > Len(AdminQueries) THEN "error"
    ELSE LET isAdmin == \E x \in users : x.user_id = u /\ x.admin = "t"
             c == AdminCase(StmtAuto(faultAt = i, SelectAdmin(i, u)), isAdmin)
         IN
         IF c = "continue" THEN isUserAdminFrom(i + 1, u, faultAt) ELSE c

isUserAdmin(u, faultAt) == isUserAdminFrom(1, u, faultAt)

\* The queries isUserAdmin issues for user u when none fails in transport:
\* up to the first that matches the schema.
AdminQueriesRun(u) ==
    {i \in 1..Len(AdminQueries) :
        \A j \in 1..(i - 1) : SelectAdmin(j, u) \in {"42703", "42P01"}}

\* AddPromocode, lines 150-230: isUserAdmin, then the validation of the body,
\* with the quantity and the times of the body drawn from the given sets.
CreateAdmin(r, quantities, times) ==
    /\ pc[r] = "createAdmin"
    /\ \E faultAt \in {0} \cup AdminQueriesRun(req[r].user) :
        LET admin == isUserAdmin(req[r].user, faultAt) IN
        /\ NoteFault(r, faultAt # 0)
        /\ IF admin = "error"
           THEN Finish(r, InternalError("Failed to verify admin status")) /\ UNCHANGED record
           ELSE IF admin = "user"
           THEN Finish(r, Response(403, "Admin privileges required", FALSE)) /\ UNCHANGED record
           ELSE \E bodyOk, nameOk \in BOOLEAN, raw \in quantities :
                IF BodyRejected(bodyOk, nameOk, raw) # NoResponse
                THEN Finish(r, BodyRejected(bodyOk, nameOk, raw)) /\ UNCHANGED record
                ELSE \E genErr, isActive \in BOOLEAN, outOfRange \in {"amd64", "arm64"},
                        bytes \in RandomBytes, start, end \in times :
                     LET v == CreateResolved(r, raw, outOfRange, genErr, bytes,
                                             isActive, start, end) IN
                     /\ record' = [record EXCEPT ![r] = v.rec]
                     /\ IF v.resp # NoResponse THEN Finish(r, v.resp)
                        ELSE Goto(r, "createInsertNew")
    /\ UNCHANGED <<layout, accounts, now, store, req, tx>>

\* AddPromocode, lines 232-270: the insert into promocode.
CreateInsertNew(r) ==
    /\ pc[r] = "createInsertNew"
    /\ \E fault \in BOOLEAN :
        LET res == StmtAuto(fault, InsertPromocode(record[r].keyword))
            c == record[r]
        IN
        /\ NoteFault(r, fault)
        /\ IF res = "ok"
           THEN /\ promocode' = promocode \cup
                        {NewCode(NextId({p.id : p \in promocode}), c.keyword, c.quantityInt,
                                 [start |-> {c.startTime}, end |-> {c.endTime}])}
                /\ Finish(r, CreatedResponse(c.keyword,
                        computePromocodeActive({c.startTime}, {c.endTime}, now),
                        c.quantityInt))
           ELSE /\ UNCHANGED promocode
                /\ IF res = "23505"
                   THEN Finish(r, Response(409, "Promocode keyword already exists", FALSE))
                   ELSE IF res \in {"42P01", "42703"} THEN Goto(r, "createInsertLegacy")
                   ELSE Finish(r, InternalError("Failed to create promocode"))
    /\ UNCHANGED <<layout, accounts, now, promocodes, promocode_activation, promocode_activations,
                   balance, req, record, tx>>

\* AddPromocode, lines 272-320: the insert into promocodes.
CreateInsertLegacy(r) ==
    /\ pc[r] = "createInsertLegacy"
    /\ \E fault \in BOOLEAN :
        LET res == StmtAuto(fault, InsertPromocodesLegacy(record[r].keyword))
            c == record[r]
        IN
        /\ NoteFault(r, fault)
        /\ IF res = "ok"
           THEN /\ promocodes' = promocodes \cup
                        {LegacyCode(NextId({p.promocode_id : p \in promocodes}), c.keyword,
                                    c.quantityInt, c.isActive)}
                /\ Finish(r, CreatedResponse(c.keyword, c.isActive, c.quantityInt))
           ELSE /\ UNCHANGED promocodes
                /\ IF res = "23505"
                   THEN Finish(r, Response(409, "Promocode keyword already exists", FALSE))
                   ELSE IF res = "42703" THEN Goto(r, "createInsertLegacyRetry")
                   ELSE Finish(r, InternalError("Failed to create promocode"))
    /\ UNCHANGED <<layout, accounts, now, promocode, promocode_activation, promocode_activations,
                   balance, req, record, tx>>

\* AddPromocode, lines 296-305: the insert into promocodes without created_at.
CreateInsertLegacyRetry(r) ==
    /\ pc[r] = "createInsertLegacyRetry"
    /\ \E fault \in BOOLEAN :
        LET res == StmtAuto(fault, InsertPromocodesLegacyRetry(record[r].keyword))
            c == record[r]
        IN
        /\ NoteFault(r, fault)
        /\ IF res = "ok"
           THEN /\ promocodes' = promocodes \cup
                        {LegacyCode(NextId({p.promocode_id : p \in promocodes}), c.keyword,
                                    c.quantityInt, c.isActive)}
                /\ Finish(r, CreatedResponse(c.keyword, c.isActive, c.quantityInt))
           ELSE /\ UNCHANGED promocodes
                /\ Finish(r, InternalError("Failed to create promocode"))
    /\ UNCHANGED <<layout, accounts, now, promocode, promocode_activation, promocode_activations,
                   balance, req, record, tx>>

\* The stores in which codes are created: those of Init, and a legacy store
\* whose promocodes table has no created_at column.
InitCreateCodes ==
    /\ layout \in Layouts \cup {"legacyBare"}
    /\ now = 0
    /\ promocode =
            IF layout = "current"
            THEN {NewCode(1, "K1", 2, [start |-> {}, end |-> {}]),
                  NewCode(2, "K2", 3, [start |-> {}, end |-> {}])}
            ELSE IF layout \in {"both", "partial"}
            THEN {NewCode(1, "K1", 2, [start |-> {}, end |-> {}])}
            ELSE {}
    /\ promocodes =
            IF layout \in {"legacy", "legacyOld", "legacyBare"} THEN {LegacyCode(1, "K1", 2, TRUE)}
            ELSE IF layout \in {"both", "partial"} THEN {LegacyCode(1, "K2", 3, TRUE)}
            ELSE {}
    /\ promocode_activation = {}
    /\ promocode_activations = {}
    /\ balance = {}
    /\ pc = [r \in Requests |-> "idle"]
    /\ req = [r \in Requests |-> NoRequest]
    /\ record = [r \in Requests |-> NoRecord]
    /\ tx = [r \in Requests |-> NoTx]
    /\ resp = [r \in Requests |-> NoResponse]
    /\ hist = [r \in Requests |-> NoHist]

InitCreate == InitCreateCodes /\ PlainAccounts

\* Concurrent creations at one reading of the clock: the quantity and the
\* window of every body are the plain ones, the keywords and the layouts vary.
NextCreate ==
    \/ \E r \in Requests : CreateStart(r)
    \/ \E r \in Requests : CreateAdmin(r, {Raw(TRUE, FALSE, "10")}, {TimeInput("omitted", 0)})
    \/ \E r \in Requests : CreateInsertNew(r)
    \/ \E r \in Requests : CreateInsertLegacy(r)
    \/ \E r \in Requests : CreateInsertLegacyRetry(r)

SpecCreate == InitCreate /\ [][NextCreate]_vars

\* One creation at a time, every quantity and every window of the body.
NextCreateBody ==
    \/ Tick
    \/ CreateStart(1)
    \/ CreateAdmin(1, QuantityInputs, TimeInputs)
    \/ CreateInsertNew(1)
    \/ CreateInsertLegacy(1)
    \/ CreateInsertLegacyRetry(1)

SpecCreateBody == InitCreate /\ [][NextCreateBody]_vars

\* ======================================================= GetPastPromocodes
\* promocodeActivationResponse
Activation(id, keyword, quantity, t) ==
    [promocode_id |-> id, keyword |-> keyword, quantity |-> quantity, activated_at |-> t]

ListResponse(activations) ==
    [status |-> 200, error |-> "", details |-> FALSE, balance |-> {},
     activations |-> activations]

\* The orders in which a query with ORDER BY .. DESC may deliver the rows:
\* latest first, rows of equal time in any order.
OrderedDesc(rows) ==
    {s \in [1..Cardinality(rows) -> rows] :
        /\ \A i, j \in 1..Cardinality(rows) : i # j => s[i] # s[j]
        /\ \A i, j \in 1..Cardinality(rows) : i < j => s[i].activated_at >= s[j].activated_at}

\* fetchPromocodeActivationsNew: promocode_activation JOIN promocode
SelectActivationsNew ==
    IF ~HasActivation \/ ~HasPromocode THEN "42P01"
    ELSE IF ~ActivationHasColumns THEN "42703"
    ELSE "ok"

ActivationsNew(u) ==
    {Activation(a.promocode_id, p.keyword, p.quantity, a.enable_time) :
        <<a, p>> \in {x \in promocode_activation \X promocode :
                        x[1].user_id = u /\ x[2].id = x[1].promocode_id}}

\* fetchPromocodeActivationsLegacy: promocode_activations JOIN promocodes ON
\* p.promocode_id, and by the older column name p.id.
SelectActivationsListLegacy ==
    IF ~HasActivations \/ ~HasPromocodes THEN "42P01"
    ELSE IF ~PromocodesHasPromocodeId THEN "42703"
    ELSE "ok"

SelectActivationsListLegacyRetry ==
    IF ~HasActivations \/ ~HasPromocodes THEN "42P01"
    ELSE IF PromocodesHasPromocodeId THEN "42703"
    ELSE "ok"

ActivationsLegacy(u) ==
    {Activation(a.promocode_id, p.keyword, p.quantity, a.activated_at) :
        <<a, p>> \in {x \in promocode_activations \X promocodes :
                        x[1].user_id = u /\ x[2].promocode_id = x[1].promocode_id}}

\* GetPastPromocodes, lines 581-585: authentication.
ListStart(r) ==
    /\ pc[r] = "idle"
    /\ \E u \in Users, token \in Tokens :
        /\ req' = [req EXCEPT ![r] = [op |-> "list", user |-> u, keyword |-> ""]]
        /\ IF token # "valid"
           THEN Finish(r, unauthorizedResponse(token))
           ELSE Goto(r, "listNew")
    /\ UNCHANGED <<layout, accounts, now, store, record, tx, hist>>

\* fetchPromocodeActivationsNew, lines 613-677, and the reaction of
\* fetchPromocodeActivations and GetPastPromocodes to its result.
ListNew(r) ==
    /\ pc[r] = "listNew"
    /\ \E fault \in BOOLEAN :
        LET res == StmtAuto(fault, SelectActivationsNew) IN
        /\ NoteFault(r, fault)
        /\ IF res = "ok"
           THEN \E s \in OrderedDesc(ActivationsNew(req[r].user)) : Finish(r, ListResponse(s))
           ELSE IF res \in {"42P01", "42703"} THEN Goto(r, "listLegacy")
           ELSE Finish(r, InternalError("Failed to fetch promocode activations"))
    /\ UNCHANGED <<layout, accounts, now, store, req, record, tx>>

\* fetchPromocodeActivationsLegacy, lines 679-693 and 708-737.
ListLegacy(r) ==
    /\ pc[r] = "listLegacy"
    /\ \E fault \in BOOLEAN :
        LET res == StmtAuto(fault, SelectActivationsListLegacy) IN
        /\ NoteFault(r, fault)
        /\ IF res = "ok"
           THEN \E s \in OrderedDesc(ActivationsLegacy(req[r].user)) : Finish(r, ListResponse(s))
           ELSE IF res = "42703" THEN Goto(r, "listLegacyRetry")
           ELSE Finish(r, InternalError("Failed to fetch promocode activations"))
    /\ UNCHANGED <<layout, accounts, now, store, req, record, tx>>

\* fetchPromocodeActivationsLegacy, lines 693-737: the query by p.id.
ListLegacyRetry(r) ==
    /\ pc[r] = "listLegacyRetry"
    /\ \E fault \in BOOLEAN :
        LET res == StmtAuto(fault, SelectActivationsListLegacyRetry) IN
        /\ NoteFault(r, fault)
        /\ IF res = "ok"
           THEN \E s \in OrderedDesc(ActivationsLegacy(req[r].user)) : Finish(r, ListResponse(s))
           ELSE Finish(r, InternalError("Failed to fetch promocode activations"))
    /\ UNCHANGED <<layout, accounts, now, store, req, record, tx>>

\* Redemptions, balance reads and listings together.
NextList ==
    \/ Next
    \/ \E r \in Requests : ListStart(r)
    \/ \E r \in Requests : ListNew(r)
    \/ \E r \in Requests : ListLegacy(r)
    \/ \E r \in Requests : ListLegacyRetry(r)

SpecList == Init /\ [][NextList]_vars

\* ============================================== every promotional-code handler
\* One request at a time over every store: the stores of Init and of
\* InitCreate, with every admin schema and user table.
InitStore ==
    /\ InitCodes \/ InitCreateCodes
    /\ adminLayout \in AdminLayouts
    /\ users \in UserTables
    /\ verifications = {}

NextStore ==
    \/ Tick
    \/ Start(1)
    \/ RedeemFindNew(1)
    \/ RedeemFindLegacy(1)
    \/ RedeemFindLegacyRetry(1)
    \/ RedeemBegin(1)
    \/ RedeemCheck(1)
    \/ RedeemCheckLegacy(1)
    \/ RedeemEnsure(1)
    \/ RedeemCredit(1)
    \/ RedeemInsert(1)
    \/ RedeemInsertLegacy(1)
    \/ RedeemCommit(1)
    \/ RedeemReadBalance(1)
    \/ BalSelect(1)
    \/ BalInsert(1)
    \/ CreateStart(1)
    \/ CreateAdmin(1, {Raw(TRUE, FALSE, "10")}, {TimeInput("omitted", 0)})
    \/ CreateInsertNew(1)
    \/ CreateInsertLegacy(1)
    \/ CreateInsertLegacyRetry(1)
    \/ ListStart(1)
    \/ ListNew(1)
    \/ ListLegacy(1)
    \/ ListLegacyRetry(1)

SpecStore == InitStore /\ [][NextStore]_vars

\* ================================================ login by an emailed code
\* LoginViaEmail (loginviaemail.go), LoginViaEmailVerify and VerifyEmail
\* (verifyemail.go).  Ten minutes, in units of the model's clock.
TenMinutes == 1

Emails == {"", "a", "b", "x"}
\* fmt.Sprintf("%06d", rng.Intn(900000)+100000): six digits, the two extremes
Codes == {"100000", "999999"}

\* A row of verifications.  id is the identity of the row (0: a row of the
\* initial store, r: the row inserted by request r), not a column read by
\* the handlers.
Verification(id, u, email, issue, expire, code) ==
    [id |-> id, user_id |-> u, email |-> email, issue_time |-> issue,
     expire_time |-> expire, type |-> "email", code |-> code]

LoginOps == {"login", "loginVerify", "verifyEmail"}

LoginRequest(op, email, code) ==
    [op |-> op, user |-> 0, keyword |-> "", email |-> email, code |-> code]

\* userID and, for the two verifying handlers, the row the SELECT delivered
\* (expireTime is its expire_time).
LoginRecord(u, rows) == [userID |-> u, row |-> rows]

\* The open transaction of one of the three handlers: targets are the rows
\* the DELETE's snapshot holds, del the rows it has deleted (and locked), ins
\* the rows inserted, usr the users row updated (and locked), all pending.
LoginTx ==
    [state |-> "open", balIns |-> FALSE, upd |-> FALSE, quantity |-> 0,
     act |-> {}, legacyAct |-> {}, targets |-> {}, del |-> {}, ins |-> {}, usr |-> {}]

LoginHist ==
    [fault |-> FALSE, committed |-> {}, interfered |-> FALSE, insert |-> "",
     insertLegacy |-> "", sent |-> "none"]

MessageResponse(message) ==
    [status |-> 200, error |-> "", details |-> FALSE, balance |-> {}, message |-> message]

TokenResponse(u) ==
    [status |-> 200, error |-> "", details |-> FALSE, balance |-> {}, token |-> {u}]

\* The error responses of LoginViaEmail carry details, those of the two
\* verifying handlers do not.
DatabaseError(op) == Response(500, "Database error", op = "login")

InLoginTx(r) == req[r].op \in LoginOps /\ InTx(r)

\* Another transaction has deleted one of the rows and not yet ended.
VerificationLocked(r, rows) ==
    \E o \in Requests \ {r} : InLoginTx(o) /\ tx[o].del \cap rows # {}

\* Another transaction has updated the users row of u and not yet ended.
UserRowLocked(r, u) ==
    \E o \in Requests \ {r} : InLoginTx(o) /\ u \in tx[o].usr

\* Lines 20-28 of loginviaemail.go, 18-26 of loginviaemailverify.go, 23-31
\* of verifyemail.go: the body.
LoginStart(r) ==
    /\ pc[r] = "idle"
    /\ \E op \in LoginOps, bodyOk \in BOOLEAN, email \in Emails, code \in Codes \cup {""} :
        /\ op = "login" => code = ""
        /\ ~bodyOk => email = "" /\ code = ""
        /\ req' = [req EXCEPT ![r] = LoginRequest(op, email, code)]
        /\ hist' = [hist EXCEPT ![r] = LoginHist]
        /\ IF ~bodyOk THEN Finish(r, Response(400, "Invalid request", FALSE))
           ELSE IF op = "login"
           THEN (IF email = "" THEN Finish(r, Response(400, "Email is required", FALSE))
                 ELSE Goto(r, "loginSelect"))
           ELSE IF email = "" \/ code = ""
           THEN Finish(r, Response(400, "Email and code are required", FALSE))
           ELSE Goto(r, "verifySelect")
    /\ UNCHANGED <<layout, accounts, now, store, record, tx>>

\* LoginViaEmail, lines 30-42: SELECT user_id FROM users WHERE email = $1
LoginSelect(r) ==
    /\ pc[r] = "loginSelect"
    /\ \E fault \in BOOLEAN :
        LET res == StmtAuto(fault, IF \E x \in users : x.email = req[r].email
                                   THEN "ok" ELSE "norows") IN
        /\ NoteFault(r, fault)
        /\ IF res = "ok"
           THEN \E x \in users :
                    /\ x.email = req[r].email
                    /\ record' = [record EXCEPT ![r] = LoginRecord(x.user_id, {})]
                    /\ Goto(r, "loginBegin")
           ELSE /\ UNCHANGED record
                /\ IF res = "norows" THEN Finish(r, Response(404, "Email not found", FALSE))
                   ELSE Finish(r, DatabaseError("login"))
    /\ UNCHANGED <<layout, accounts, now, store, req, tx>>

\* db.DB.Begin() of the three handlers: loginviaemail.go lines 44-53,
\* loginviaemailverify.go lines 48-53, verifyemail.go lines 53-58.
LoginBegin(r) ==
    /\ pc[r] \in {"loginBegin", "verifyBegin"}
    /\ \E fault \in BOOLEAN :
        /\ NoteFault(r, fault)
        /\ IF fault
           THEN Finish(r, DatabaseError(req[r].op)) /\ UNCHANGED tx
           ELSE /\ Goto(r, IF req[r].op = "verifyEmail" THEN "verifyUpdate" ELSE "delete")
                /\ tx' = [tx EXCEPT ![r] = LoginTx]
    /\ UNCHANGED <<layout, accounts, now, store, req, record>>

\* DELETE FROM verifications WHERE user_id = $1 (loginviaemail.go lines 55-63,
\* loginviaemailverify.go lines 55-59, verifyemail.go lines 66-70): the
\* statement takes its snapshot of the committed rows.
DeleteVerifications(r) ==
    /\ pc[r] = "delete"
    /\ \E fault \in BOOLEAN :
        LET res == StmtInTx(r, fault, "ok") IN
        /\ NoteFault(r, fault)
        /\ IF IsError(res)
           THEN Finish(r, DatabaseError(req[r].op)) /\ Rollback(r)
           ELSE /\ Goto(r, "deleteLock")
                /\ tx' = [tx EXCEPT ![r].targets =
                            {v \in verifications : v.user_id = record[r].userID}]
    /\ UNCHANGED <<layout, accounts, now, store, req, record>>

\* The same statement, taking the row locks: it waits for a transaction that
\* has deleted one of its rows, and deletes the rows that are still there.
DeleteVerificationsLock(r) ==
    /\ pc[r] = "deleteLock"
    /\ ~VerificationLocked(r, tx[r].targets)
    /\ tx' = [tx EXCEPT ![r].del = tx[r].targets \cap verifications]
    /\ Goto(r, IF req[r].op = "login" THEN "loginInsert" ELSE "verifyCommit")
    /\ UNCHANGED <<layout, accounts, now, store, req, record, hist>>

\* LoginViaEmail, lines 65-83: the code, its expiry and the insert.
LoginInsert(r) ==
    /\ pc[r] = "loginInsert"
    /\ \E fault \in BOOLEAN, code \in Codes :
        LET res == StmtInTx(r, fault, "ok") IN
        /\ NoteFault(r, fault)
        /\ IF IsError(res)
           THEN Finish(r, InternalError("Failed to create verification")) /\ Rollback(r)
           ELSE /\ Goto(r, "loginCommit")
                /\ tx' = [tx EXCEPT ![r].ins =
                            {Verification(r, record[r].userID, req[r].email, now,
                                          now + TenMinutes, code)}]
    /\ UNCHANGED <<layout, accounts, now, store, req, record>>

\* The tables after the transaction's writes are committed.
CommittedVerifications(r) == (verifications \ tx[r].del) \cup tx[r].ins

CommittedUsers(r) ==
    {IF x.user_id \in tx[r].usr THEN [x EXCEPT !.email = req[r].email] ELSE x : x \in users}

\* LoginViaEmail, lines 85-92: tx.Commit().
LoginCommit(r) ==
    /\ pc[r] = "loginCommit"
    /\ \E fault \in BOOLEAN :
        /\ NoteFault(r, fault)
        /\ IF fault \/ tx[r].state = "failed"
           THEN /\ Finish(r, DatabaseError("login")) /\ Rollback(r)
                /\ UNCHANGED verifications
           ELSE /\ Goto(r, "loginSend")
                /\ verifications' = CommittedVerifications(r)
                /\ tx' = [tx EXCEPT ![r] = [NoTx EXCEPT !.state = "committed"]]
    /\ UNCHANGED <<layout, adminLayout, users, now, store, req, record>>

\* Variant: a delivery that fails fails the request.
LoginSendFailing(r) ==
    /\ pc[r] = "loginSend"
    /\ \E delivered \in BOOLEAN :
        /\ hist' = [hist EXCEPT ![r].sent = IF delivered THEN "delivered" ELSE "failed"]
        /\ IF delivered THEN Finish(r, MessageResponse("Verification code sent to email"))
           ELSE Finish(r, InternalError("Failed to send email"))
    /\ UNCHANGED <<layout, accounts, now, store, req, record, tx>>

\* LoginViaEmail, lines 94-100: sendLoginVerificationEmail and the response.
LoginSend(r) ==
    /\ pc[r] = "loginSend"
    /\ \E delivered \in BOOLEAN :
        /\ hist' = [hist EXCEPT ![r].sent = IF delivered THEN "delivered" ELSE "failed"]
        /\ Finish(r, MessageResponse("Verification code sent to email"))
    /\ UNCHANGED <<layout, accounts, now, store, req, record, tx>>

\* SELECT user_id, expire_time FROM verifications WHERE email = $1 AND
\* code = $2 AND type = 'email'
MatchingVerifications(email, code) ==
    {v \in verifications : v.email = email /\ v.code = code /\ v.type = "email"}

\* Variant: no code is ever taken as expired.
ExpiredNever(t, expireTime) == FALSE

\* time.Now().After(expireTime)
Expired(t, expireTime) == t > expireTime

\* LoginViaEmailVerify, lines 28-46, VerifyEmail, lines 33-51: the lookup of
\* the code (QueryRow: one of the matching rows) and the expiry check.
VerifySelect(r) ==
    /\ pc[r] = "verifySelect"
    /\ \E fault \in BOOLEAN :
        LET res == StmtAuto(fault,
                    IF MatchingVerifications(req[r].email, req[r].code) # {}
                    THEN "ok" ELSE "norows") IN
        /\ NoteFault(r, fault)
        /\ IF res = "ok"
           THEN \E v \in MatchingVerifications(req[r].email, req[r].code) :
                    IF Expired(now, v.expire_time)
                    THEN Finish(r, Response(400, "Code expired", FALSE)) /\ UNCHANGED record
                    ELSE /\ record' = [record EXCEPT ![r] = LoginRecord(v.user_id, {v})]
                         /\ Goto(r, "verifyBegin")
           ELSE /\ UNCHANGED record
                /\ IF res = "norows" THEN Finish(r, Response(400, "Invalid code", FALSE))
                   ELSE Finish(r, DatabaseError(req[r].op))
    /\ UNCHANGED <<layout, accounts, now, store, req, tx>>

\* VerifyEmail, lines 60-64: UPDATE users SET email = $1 WHERE user_id = $2;
\* the row stays locked to the end of the transaction.
VerifyUpdate(r) ==
    /\ pc[r] = "verifyUpdate"
    /\ ~UserRowLocked(r, record[r].userID)
    /\ \E fault \in BOOLEAN :
        LET res == StmtInTx(r, fault, "ok") IN
        /\ NoteFault(r, fault)
        /\ IF IsError(res)
           THEN Finish(r, Response(500, "Failed to update email", FALSE)) /\ Rollback(r)
           ELSE /\ Goto(r, "delete")
                /\ tx' = [tx EXCEPT ![r].usr =
                            {x.user_id : x \in {y \in users : y.user_id = record[r].userID}}]
    /\ UNCHANGED <<layout, accounts, now, store, req, record>>

\* LoginViaEmailVerify, lines 61-89, VerifyEmail, lines 72-100: tx.Commit(),
\* the token and the response.
VerifyCommit(r) ==
    /\ pc[r] = "verifyCommit"
    /\ \E fault, signed \in BOOLEAN :
        /\ NoteFault(r, fault)
        /\ IF fault \/ tx[r].state = "failed"
           THEN /\ Finish(r, DatabaseError(req[r].op)) /\ Rollback(r)
                /\ UNCHANGED <<users, verifications>>
           ELSE /\ verifications' = CommittedVerifications(r)
                /\ users' = CommittedUsers(r)
                /\ tx' = [tx EXCEPT ![r] = [NoTx EXCEPT !.state = "committed"]]
                /\ IF signed THEN Finish(r, TokenResponse(record[r].userID))
                   ELSE Finish(r, Response(500, "Failed to generate token", FALSE))
    /\ UNCHANGED <<layout, adminLayout, now, store, req, record>>

\* The store the login handlers run on: two users, and possibly a code sent
\* to user 1 a moment ago.
InitLogin ==
    /\ layout = "current"
    /\ now = 0
    /\ promocode = {}
    /\ promocodes = {}
    /\ promocode_activation = {}
    /\ promocode_activations = {}
    /\ balance = {}
    /\ adminLayout = "is_admin"
    /\ users = {User(1, "a", "t"), User(2, "b", "f")}
    /\ verifications \in {{}, {Verification(0, 1, "a", 0, TenMinutes, "100000")}}
    /\ pc = [r \in Requests |-> "idle"]
    /\ req = [r \in Requests |-> NoRequest]
    /\ record = [r \in Requests |-> NoRecord]
    /\ tx = [r \in Requests |-> NoTx]
    /\ resp = [r \in Requests |-> NoResponse]
    /\ hist = [r \in Requests |-> NoHist]

NextLogin ==
    \/ Tick
    \/ \E r \in Requests : LoginStart(r)
    \/ \E r \in Requests : LoginSelect(r)
    \/ \E r \in Requests : LoginBegin(r)
    \/ \E r \in Requests : DeleteVerifications(r)
    \/ \E r \in Requests : DeleteVerificationsLock(r)
    \/ \E r \in Requests : LoginInsert(r)
    \/ \E r \in Requests : LoginCommit(r)
    \/ \E r \in Requests : LoginSend(r)
    \/ \E r \in Requests : VerifySelect(r)
    \/ \E r \in Requests : VerifyUpdate(r)
    \/ \E r \in Requests : VerifyCommit(r)

SpecLogin == InitLogin /\ [][NextLogin]_vars

\* ==================================== every handler that opens a transaction
\* A store of each layout with one code and a login code sent to user 1;
\* request 1 may also redeem or read the balance.
InitTx ==
    /\ layout \in Layouts
    /\ now = 0
    /\ promocode = IF HasPromocode
                   THEN {NewCode(1, "K1", 2, [start |-> {}, end |-> {}])} ELSE {}
    /\ promocodes = IF layout \in {"legacy", "legacyOld"}
                    THEN {LegacyCode(1, "K1", 2, TRUE)} ELSE {}
    /\ promocode_activation = {}
    /\ promocode_activations = {}
    /\ balance = {}
    /\ adminLayout = "is_admin"
    /\ users = {User(1, "a", "t"), User(2, "b", "f")}
    /\ verifications = {Verification(0, 1, "a", 0, TenMinutes, "100000")}
    /\ pc = [r \in Requests |-> "idle"]
    /\ req = [r \in Requests |-> NoRequest]
    /\ record = [r \in Requests |-> NoRecord]
    /\ tx = [r \in Requests |-> NoTx]
    /\ resp = [r \in Requests |-> NoResponse]
    /\ hist = [r \in Requests |-> NoHist]

NextTx ==
    \/ NextLogin
    \/ Start(1)
    \/ RedeemFindNew(1)
    \/ RedeemFindLegacy(1)
    \/ RedeemFindLegacyRetry(1)
    \/ RedeemBegin(1)
    \/ RedeemCheck(1)
    \/ RedeemCheckLegacy(1)
    \/ RedeemEnsure(1)
    \/ RedeemCredit(1)
    \/ RedeemInsert(1)
    \/ RedeemInsertLegacy(1)
    \/ RedeemCommit(1)
    \/ RedeemReadBalance(1)
    \/ BalSelect(1)
    \/ BalInsert(1)

SpecTx == InitTx /\ [][NextTx]_vars

\* ============================================================ properties
RECURSIVE SumQuantity(_)
SumQuantity(S) ==
    IF S = {} THEN 0
    ELSE LET x == CHOOSE y \in S : TRUE IN x.q + SumQuantity(S \ {x})

\* The quantities of a user's redemption rows: the quantity column of a
\* current-schema row, the quantity of the joined legacy code for a legacy row.
RedemptionQuantities(u) ==
    {[row |-> a, q |-> a.quantity] : a \in {x \in promocode_activation : x.user_id = u}}
    \cup
    {[row |-> a, q |-> (CHOOSE p \in promocodes : p.promocode_id = a.promocode_id).quantity] :
        a \in {x \in promocode_activations : x.user_id = u}}

RedemptionsOf(u, id, variant) ==
    {[table |-> "promocode_activation", row |-> a] :
        a \in {x \in promocode_activation :
                x.user_id = u /\ x.promocode_id = id /\ x.variant = variant}}
    \cup
    {[table |-> "promocode_activations", row |-> a] :
        a \in {x \in promocode_activations :
                x.user_id = u /\ x.promocode_id = id /\ x.variant = variant}}

CodeIds == {p.id : p \in promocode} \cup {p.promocode_id : p \in promocodes}
Settled == \A r \in Requests : ~InTx(r)
BalanceIn(table, u) ==
    IF \E b \in table : b.user_id = u
    THEN (CHOOSE b \in table : b.user_id = u).quantity
    ELSE 0
Redeems(r) == req[r].op = "redeem" /\ pc[r] = "done"
Succeeded(r) == Redeems(r) /\ resp[r].status = 200
KeywordKnown(k) ==
    (\E p \in promocode : p.keyword = k) \/ (\E p \in promocodes : p.keyword = k)

\* C1: for every user and every code (of either code table) at most one
\* committed redemption row exists, the rows of promocode_activation and of
\* promocode_activations counted together.
C1_AtMostOneRedemptionPerPair ==
    \A u \in Users, id \in CodeIds, variant \in {"current", "legacy"} :
        Cardinality(RedemptionsOf(u, id, variant)) <= 1

\* C2: when all requests are redeem calls of one user for one keyword that
\* resolved to an active code, and no store statement failed for a transport
\* reason, exactly one of them answers success, every other answers "already
\* activated", and exactly one redemption row of the pair was added.
C2_ConcurrentRedeemOnce ==
    \A u \in Users, k \in {"K1", "K2"} :
        (/\ \A r \in Requests :
                /\ Redeems(r) /\ req[r].user = u /\ req[r].keyword = k
                /\ record[r].IsActive /\ ~hist[r].fault
         /\ promocode_activations = {})
        => /\ Cardinality({r \in Requests : Succeeded(r)}) = 1
           /\ \A r \in Requests : ~Succeeded(r) => resp[r] = AlreadyActivated
           /\ Cardinality({a \in promocode_activation : a.user_id = u}) = 1

\* A step that changes the balance or an activation table is the commit of a
\* redeem transaction, or a balance read adding the user's zero row.
C3_StoreChange ==
    (balance' # balance \/ promocode_activation' # promocode_activation
        \/ promocode_activations' # promocode_activations)
    => \/ \E r \in Requests : pc[r] = "commit" /\ pc'[r] = "readBalance"
       \/ \E r \in Requests :
            /\ pc[r] = "balInsert"
            /\ balance' = balance \cup {[user_id |-> req[r].user, quantity |-> 0]}
            /\ promocode_activation' = promocode_activation
            /\ promocode_activations' = promocode_activations
\* The step in which a redeem call ends before its commit succeeded changes
\* no table and leaves the call without a transaction.
C3_AbortIsClean ==
    \A r \in Requests :
        (req[r].op = "redeem" /\ pc[r] # "done" /\ pc'[r] = "done" /\ pc[r] # "readBalance")
        => /\ balance' = balance
           /\ promocode_activation' = promocode_activation
           /\ promocode_activations' = promocode_activations
           /\ ~InTx(r)'
\* C3: a redeem call that fails before its commit succeeded leaves the
\* committed store unchanged: the balance and activation tables change only in
\* the commit step of a redeem transaction (or when a balance read lazily adds
\* a zero row), never in a step of a call that ends before its commit.
C3_NoEffectBeforeCommit == [][C3_StoreChange /\ C3_AbortIsClean]_vars
\* Witness: a redeem call that reached the insert, after its credit, and ended rolled back.
C3_Witness ==
    \E r \in Requests :
        /\ Redeems(r) /\ resp[r].status # 200
        /\ hist[r].insert \in {"23505", "conn"}
        /\ tx[r].state = "rolledback"

\* C4: in every state with no transaction in flight, each user's balance is
\* the sum of the quantities of the user's redemption rows of both tables.
C4_BalanceIsSumOfRedemptions ==
    Settled => \A u \in Users : BalanceOf(u) = SumQuantity(RedemptionQuantities(u))
\* Witness: a settled state in which a user holds two redemption rows.
C4_Witness ==
    /\ Settled
    /\ \E u \in Users : Cardinality(RedemptionQuantities(u)) = 2

\* The commit step of a redeem adds the code's quantity to the user's row.
C5_CommitStep ==
    \A r \in Requests :
        (pc[r] = "commit" /\ pc'[r] = "readBalance")
        => /\ BalanceIn(balance', req[r].user)
                = BalanceIn(balance, req[r].user) + record[r].Quantity
           /\ \E b \in balance' : b.user_id = req[r].user
           /\ {b \in balance' : b.user_id # req[r].user}
                = {b \in balance : b.user_id # req[r].user}
\* The success response carries the balance stored by the commit.
C5_Response ==
    \A r \in Requests :
        (Succeeded(r) /\ ~hist[r].interfered) => resp[r].balance = hist[r].committed
\* C5: the commit of a redeem adds exactly the code's quantity to the user's
\* stored balance (a missing row counting as 0) and changes no other user's
\* row; the balance of the success response is that new stored balance unless
\* another credit to the same user was committed before the read-back.
C5_SuccessCreditsQuantity == [][C5_CommitStep]_vars /\ []C5_Response
\* Witness: a success whose user already held a balance before the credit.
C5_Witness ==
    \E r \in Requests :
        /\ Succeeded(r) /\ ~hist[r].interfered
        /\ \E q \in resp[r].balance : q > record[r].Quantity

C7_LegacyRedeemSucceeds ==
    \A r \in Requests :
        (/\ layout \in {"legacy", "legacyOld"}
         /\ Redeems(r) /\ ~hist[r].fault
         /\ record[r].variant = "legacy" /\ record[r].IsActive
         /\ RedemptionsOf(req[r].user, record[r].ID, "legacy") = {})
        => resp[r].status = 200

\* C8: a redeem is answered "already activated" only if a redemption row of
\* exactly that user and that code exists.
C8_RejectedOnlyForOwnPair ==
    \A r \in Requests :
        (Redeems(r) /\ resp[r] = AlreadyActivated)
        => RedemptionsOf(req[r].user, record[r].ID, record[r].variant) # {}

\* C9: a redeem of a keyword that no code of either table carries answers 404
\* and opens no transaction, whatever the layout.
C9_UnknownKeywordIsNotFound ==
    \A r \in Requests :
        (Redeems(r) /\ req[r].keyword # "" /\ ~KeywordKnown(req[r].keyword) /\ ~hist[r].fault)
        => resp[r].status = 404 /\ tx[r].state = "none"

\* now within [start, end], a NULL bound unbounded
WithinWindow(p, t) ==
    /\ (p.start_time = {} \/ \E s \in p.start_time : s <= t)
    /\ (p.end_time = {} \/ \E e \in p.end_time : t <= e)
\* The step of the current-schema lookup that resolves a code.
C10_Step ==
    \A r \in Requests :
        (pc[r] = "findNew" /\ record'[r].variant = "current")
        => LET p == PromocodeRow(req[r].keyword) IN
           /\ record'[r].IsActive = WithinWindow(p, now)
           /\ (pc'[r] = "done" /\ resp'[r] = Response(400, "Promocode is not active", FALSE))
                <=> ~WithinWindow(p, now)
           /\ ~WithinWindow(p, now) => UNCHANGED <<store, tx>>
           /\ WithinWindow(p, now) => pc'[r] = "begin"
\* C10: a current-schema code is active exactly when now is not before its
\* start and not after its end (both inclusive, a NULL bound unbounded), and
\* the redeem that resolves it answers "not active", changing nothing, exactly
\* when it is not active at that moment.
C10_ActiveWindow == [][C10_Step]_vars
\* Witness: one call refused as not active and another call validating the same code as active.
C10_Witness ==
    \E r, o \in Requests :
        /\ Redeems(r) /\ resp[r].error = "Promocode is not active"
        /\ record[r].variant = "current"
        /\ req[o].keyword = req[r].keyword /\ record[o].variant = "current"
        /\ record[o].IsActive

\* --------------------------------------------------------- code creation
Creates(r) == req[r].op = "create" /\ pc[r] = "done"
Created(r) == Creates(r) /\ resp[r].status = 200
Inserting(r) == pc[r] \in {"createInsertNew", "createInsertLegacy", "createInsertLegacyRetry"}
KeywordsOf(table) == {p.keyword : p \in table}

\* C11: no two stored codes share a keyword, the codes of promocode and of
\* promocodes taken together.
C11_NoTwoCodesShareKeyword ==
    /\ \A p, q \in promocode : p.keyword = q.keyword => p = q
    /\ \A p, q \in promocodes : p.keyword = q.keyword => p = q
    /\ KeywordsOf(promocode) \cap KeywordsOf(promocodes) = {}

\* The body of a creation is validated: a keyword that is blank or "none" in
\* any letter case is replaced by a generated one of KeywordLen characters.
C12_Generated ==
    \A r \in Requests :
        (pc[r] = "createAdmin" /\ pc'[r] = "createInsertNew"
            /\ (TrimSpace(req[r].keyword) = "" \/ TrimSpace(req[r].keyword) \in {"none", "NoNe", "NONE"}))
        => /\ record'[r].generated
           /\ Len(record'[r].keyword) = KeywordLen
           /\ record'[r].keyword \notin CreateKeywords
\* A uniqueness violation at an insert of a creation with a generated keyword
\* ends the creation at once with 409, nothing stored and no other keyword
\* generated.
C12_Collision ==
    \A r \in Requests :
        (/\ Inserting(r) /\ record[r].generated /\ pc'[r] # pc[r]
         /\ ~hist'[r].fault
         /\ \/ pc[r] = "createInsertNew" /\ InsertPromocode(record[r].keyword) = "23505"
            \/ pc[r] = "createInsertLegacy"
                    /\ InsertPromocodesLegacy(record[r].keyword) = "23505"
            \/ pc[r] = "createInsertLegacyRetry"
                    /\ InsertPromocodesLegacyRetry(record[r].keyword) = "23505")
        => /\ pc'[r] = "done"
           /\ resp'[r] = Response(409, "Promocode keyword already exists", FALSE)
           /\ record'[r] = record[r]
           /\ UNCHANGED store
\* C12: a creation whose keyword is blank or "none" in any letter case uses a
\* generated keyword of 8 characters, never the supplied text, and a
\* uniqueness violation of that keyword ends it with 409 (ConflictError), no
\* other keyword generated.
C12_GeneratedKeywordConflict == [][C12_Generated /\ C12_Collision]_vars

\* The times resolvePromocodeTimes yields at the present instant.
C13_Resolve ==
    \A start, end \in {i \in TimeInputs : i.kind # "bad"} :
        LET x == resolvePromocodeTimes(start, end, now)
            s == IF start.kind = "time" THEN start.t ELSE now
            e == IF end.kind = "time" THEN end.t ELSE s + ThirtyDays
        IN IF e <= s THEN x.err # ""
           ELSE x.err = "" /\ x.start = s /\ x.end = e
\* The creation in flight or done carries the resolved window; a rejected
\* window stores nothing; a stored window has its end after its start; a code
\* created without bounds is active from its creation on.
C13_Handler ==
    /\ \A r \in Requests :
        (req[r].op = "create" /\ record[r] # NoRecord)
        => /\ record[r].endTime > record[r].startTime
           /\ ~record[r].startGiven => record[r].startTime <= now
           /\ ~record[r].endGiven => record[r].endTime = record[r].startTime + ThirtyDays
    /\ \A r \in Requests :
        (Creates(r) /\ resp[r].error = "Invalid start or end time")
        => KeywordsOf(promocode) \cup KeywordsOf(promocodes) \subseteq {"K1", "K2"}
    /\ \A p \in promocode :
        \A s \in p.start_time, e \in p.end_time : e > s
    /\ \A r \in Requests :
        (Created(r) /\ HasPromocode /\ ~record[r].startGiven /\ ~record[r].endGiven)
        => /\ resp[r].active
           /\ \E p \in promocode :
                /\ p.keyword = record[r].keyword
                /\ p.start_time = {record[r].startTime}
                /\ computePromocodeActive(p.start_time, p.end_time, now)
    \* a legacy store keeps no window: the code is active unless the body
    \* said is_active = false
    /\ \A r \in Requests :
        (Created(r) /\ ~HasPromocode /\ ~record[r].startGiven /\ ~record[r].endGiven)
        => /\ resp[r].active = record[r].isActive
           /\ \E p \in promocodes :
                p.keyword = record[r].keyword /\ p.is_active = record[r].isActive
\* The step that validates the body takes the present instant as the start
\* when none is given.
C13_Step ==
    \A r \in Requests :
        (pc[r] = "createAdmin" /\ pc'[r] = "createInsertNew" /\ ~record'[r].startGiven)
        => record'[r].startTime = now
C14_StoredQuantityIsParsedValue ==
    \A r \in Requests :
        Created(r) =>
            /\ resp[r].quantity > 0
            /\ resp[r].quantity = Round(record[r].parsed)
            /\ \E p \in promocode \cup promocodes :
                    p.keyword = record[r].keyword /\ p.quantity = resp[r].quantity

\* ------------------------------------------------- failures and responses
\* C15: a redeem call in which a store statement failed for a transport
\* reason answers 500 with details and none of its writes is committed; and a
\* redeem call that answers with an error has not committed its redemption.
C15_ErrorMeansNotCommitted ==
    \A r \in Requests :
        Redeems(r) =>
            /\ hist[r].fault => (resp[r].status = 500 /\ resp[r].details
                                    /\ tx[r].state # "committed")
            /\ resp[r].status # 200 => tx[r].state # "committed"

\* C16: a response carries details only when its status is 500.
C16_DetailsOnlyOnInternalFailure ==
    \A r \in Requests : (pc[r] = "done" /\ resp[r].details) => resp[r].status = 500

\* C17: a request answered 401 touched no store object and carries one of the
\* three messages of the causes missing, invalid and expired, never the
\* generic "Unauthorized".
C17_UnauthorizedMessages ==
    \A r \in Requests :
        (pc[r] = "done" /\ resp[r].status = 401)
        => /\ tx[r].state = "none" /\ record[r] = NoRecord /\ ~hist[r].fault
           /\ resp[r].error \in {"Missing authorization token", "Invalid token signature",
                                 "Token expired"}

\* ------------------------------------------------------------ balance read
\* A step of a balance read: the select changes nothing and answers the
\* stored value of an existing row; the lazy insert answers 0, adds the zero
\* row when the user has none and changes no existing row.
C19_Step ==
    \A r \in Requests :
        LET u == req[r].user IN
        /\ (pc[r] = "balSelect" /\ pc'[r] # pc[r])
            => /\ UNCHANGED store
               /\ (HasBalanceRow(u) /\ ~hist'[r].fault)
                    => pc'[r] = "done" /\ resp'[r] = BalanceResponse(BalanceOf(u))
               /\ (~HasBalanceRow(u) /\ ~hist'[r].fault) => pc'[r] = "balInsert"
        /\ (pc[r] = "balInsert" /\ pc'[r] # pc[r])
            => /\ balance \subseteq balance'
               /\ UNCHANGED <<promocode, promocodes, promocode_activation, promocode_activations>>
               /\ ~hist'[r].fault
                    => /\ pc'[r] = "done" /\ resp'[r] = BalanceResponse(0)
                       /\ balance' = IF HasBalanceRow(u) THEN balance
                                     ELSE balance \cup {[user_id |-> u, quantity |-> 0]}
\* C19: the standalone balance read returns the stored value of an existing
\* row and changes nothing; for a user without a row it returns 0 and leaves
\* a zero row; in no interleaving does it change an existing row.
C19_BalanceReadIsIdempotent == [][C19_Step]_vars
\* Witness: a read that found no row answered 0 after a concurrent redeem had
\* committed the user's row with its credit.
C19_Witness ==
    \E r \in Requests :
        /\ req[r].op = "balance" /\ pc[r] = "done" /\ resp[r].balance = {0}
        /\ BalanceOf(req[r].user) > 0

\* The credits of the rows the store started with (the legacy rows).
LegacyCredit(u) ==
    SumQuantity({x \in RedemptionQuantities(u) : x.row \in promocode_activations})

\* C20: when two redeem transactions of one user for two different codes have
\* both committed, the user's balance is the earlier balance plus both
\* quantities, in exactly one row.
C20_CreditsAreAdditive ==
    \A r, o \in Requests :
        (/\ r # o /\ req[r].user = req[o].user
         /\ tx[r].state = "committed" /\ tx[o].state = "committed"
         /\ record[r] # record[o])
        => /\ BalanceOf(req[r].user)
                = LegacyCredit(req[r].user) + record[r].Quantity + record[o].Quantity
           /\ Cardinality({b \in balance : b.user_id = req[r].user}) = 1
\* Witness: two committed redemptions of one user for two codes.
C20_Witness ==
    \E r, o \in Requests :
        /\ r # o /\ req[r].user = req[o].user
        /\ tx[r].state = "committed" /\ tx[o].state = "committed"
        /\ record[r].ID # record[o].ID

\* ----------------------------------------------------------------- listing
\* The code a redemption row was written for: the row of the code table the
\* redeemed code came from.
RedeemedCode(a) ==
    IF a.variant = "current"
    THEN {[id |-> p.id, keyword |-> p.keyword, quantity |-> p.quantity] :
            p \in {x \in promocode : x.id = a.promocode_id}}
    ELSE {[id |-> p.promocode_id, keyword |-> p.keyword, quantity |-> p.quantity] :
            p \in {x \in promocodes : x.promocode_id = a.promocode_id}}

\* What the listing of user u has to hold: one entry per redemption row of
\* either table, with the redeemed code's id, keyword and quantity.
ExpectedActivations(u) ==
    {Activation(c.id, c.keyword, c.quantity, a.enable_time) :
        <<a, c>> \in {x \in promocode_activation \X
                        UNION {RedeemedCode(y) : y \in promocode_activation} :
                            x[1].user_id = u /\ x[2] \in RedeemedCode(x[1])}}
    \cup
    {Activation(c.id, c.keyword, c.quantity, a.activated_at) :
        <<a, c>> \in {x \in promocode_activations \X
                        UNION {RedeemedCode(y) : y \in promocode_activations} :
                            x[1].user_id = u /\ x[2] \in RedeemedCode(x[1])}}

Lists(r) == req[r].op = "list" /\ pc[r] \in {"listNew", "listLegacy", "listLegacyRetry"}

C18_Step ==
    \A r \in Requests :
        (Lists(r) /\ pc'[r] = "done" /\ resp'[r].status = 200)
        => resp'[r].activations \in OrderedDesc(ExpectedActivations(req[r].user))
\* C18: a listing that answers 200 holds exactly one entry per redemption row
\* of its user, of either activation table, and none of another user, latest
\* first, each entry with the id, keyword and quantity of the redeemed code.
C18_ListingIsComplete == [][C18_Step]_vars

\* ---------------------------------------------------------- schema adapter
SchemaMismatch == {"42P01", "42703"}

C21_Step ==
    \A r \in Requests :
        /\ (pc[r] = "findNew" /\ pc'[r] = "findLegacy")
            => SelectPromocode(req[r].keyword) \in SchemaMismatch
        /\ (pc[r] = "check" /\ pc'[r] = "checkLegacy")
            => SelectActivation(record[r].ID, req[r].user) \in SchemaMismatch
        /\ (pc[r] = "insert" /\ pc'[r] = "insertLegacy")
            => InsertActivation(record[r].ID, req[r].user) \in SchemaMismatch
        /\ (pc[r] = "listNew" /\ pc'[r] = "listLegacy")
            => SelectActivationsNew \in SchemaMismatch
\* C21: find, check, record and list go on to their legacy statement only
\* when the current-schema statement failed with undefined table or undefined
\* column; a current-schema statement that succeeds, also with no row, or
\* fails otherwise, is final.
C21_LegacyOnlyAfterSchemaMismatch == [][C21_Step]_vars

\* The statements of the five store operations: the current-schema one, the
\* legacy one, and the legacy one by the older column names.
CurrentStmt == {"findNew", "createInsertNew", "check", "insert", "listNew"}
LegacyStmt == {"findLegacy", "createInsertLegacy", "checkLegacy", "insertLegacy", "listLegacy"}
RetryStmt == {"findLegacyRetry", "createInsertLegacyRetry", "listLegacyRetry"}

LegacyOf(label) ==
    CASE label = "findNew" -> "findLegacy"
      [] label = "createInsertNew" -> "createInsertLegacy"
      [] label = "check" -> "checkLegacy"
      [] label = "insert" -> "insertLegacy"
      [] label = "listNew" -> "listLegacy"
      [] OTHER -> "none"

RetryOf(label) ==
    CASE label = "findLegacy" -> "findLegacyRetry"
      [] label = "createInsertLegacy" -> "createInsertLegacyRetry"
      [] label = "listLegacy" -> "listLegacyRetry"
      [] OTHER -> "none"

\* The result of the legacy statement request r is about to issue.
LegacyResult(r) ==
    CASE pc[r] = "findLegacy" -> SelectPromocodesLegacy(req[r].keyword)
      [] pc[r] = "createInsertLegacy" -> InsertPromocodesLegacy(record[r].keyword)
      [] pc[r] = "listLegacy" -> SelectActivationsListLegacy
      [] OTHER -> "none"

\* C22 as stated: no operation issues a statement after its legacy statement.
C22_AtMostOneAlternate == \A r \in Requests : pc[r] \notin RetryStmt

C22_Step ==
    \A r \in Requests :
        pc'[r] # pc[r] =>
            /\ pc'[r] \in CurrentStmt => pc[r] \notin LegacyStmt \cup RetryStmt
            /\ pc'[r] \in LegacyStmt => pc'[r] = LegacyOf(pc[r])
            /\ pc'[r] \in RetryStmt =>
                    pc'[r] = RetryOf(pc[r]) /\ LegacyResult(r) = "42703"
            /\ pc[r] \in RetryStmt => pc'[r] \notin LegacyStmt \cup RetryStmt
            /\ pc[r] \in {"checkLegacy", "insertLegacy"}
                    => pc'[r] \notin {"check", "checkLegacy", "insert", "insertLegacy"}
\* C22 (amended): every store operation issues its statements in one fixed
\* order, each at most once: the current-schema statement, then at most one
\* legacy statement, then, only for create, find and list and only when the
\* legacy statement failed with undefined column, at most one more legacy
\* statement by the older column names; nothing is attempted after that.
C22_AtMostTwoAlternates == [][C22_Step]_vars

C22_Witness ==
    \E r \in Requests :
        /\ req[r].op = "redeem" /\ layout = "legacyOld"
        /\ record[r].variant = "legacy" /\ pc[r] = "begin"

\* ------------------------------------------------------------ admin gate
\* What the store says about user u: "admin", "user", or "undetermined" when
\* no schema object carries an admin marking or the user's marking is NULL.
Marking(u) ==
    IF adminLayout = "none" THEN "undetermined"
    ELSE IF adminLayout \in {"admins", "user_roles"}
    THEN (IF \E x \in users : x.user_id = u /\ x.admin = "t" THEN "admin" ELSE "user")
    ELSE IF \A x \in users : x.user_id # u THEN "user"
    ELSE IF \E x \in users : x.user_id = u /\ x.admin = "null" THEN "undetermined"
    ELSE IF \E x \in users : x.user_id = u /\ x.admin = "t" THEN "admin"
    ELSE "user"

C26_Step ==
    \A r \in Requests :
        (pc[r] = "createAdmin" /\ pc'[r] # pc[r]) =>
            /\ (Marking(req[r].user) = "user" /\ ~hist'[r].fault)
                => /\ pc'[r] = "done"
                   /\ resp'[r] = Response(403, "Admin privileges required", FALSE)
            /\ (Marking(req[r].user) = "undetermined" \/ hist'[r].fault)
                => /\ pc'[r] = "done"
                   /\ resp'[r] = InternalError("Failed to verify admin status")
            /\ UNCHANGED store
\* C26: a creation by an authenticated user the store marks as no admin is
\* answered 403, one whose admin status cannot be determined (a failing
\* query, or no admin marking in the schema) is answered 500; both end the
\* request there, with no code stored.
C26_AdminGate ==
    /\ [][C26_Step]_vars
    /\ [](\A r \in Requests :
            (req[r].op = "create" /\ resp[r].status = 200)
                => Marking(req[r].user) = "admin")

C26_Witness ==
    \E r \in Requests :
        /\ req[r].op = "create" /\ adminLayout = "user_roles"
        /\ resp[r] = Response(403, "Admin privileges required", FALSE)

\* ------------------------------------------------------- redeem phases
Phases == <<"Validating", "CheckingPriorRedemption", "Crediting", "Recording",
            "Committed", "Aborted">>

\* The phase of a redeem call at a position, given its transaction's state.
Phase(label, txState) ==
    CASE label \in {"idle", "findNew", "findLegacy", "findLegacyRetry"} -> 1
      [] label \in {"begin", "check", "checkLegacy"} -> 2
      [] label \in {"ensure", "credit"} -> 3
      [] label \in {"insert", "insertLegacy", "commit"} -> 4
      [] label = "readBalance" -> 5
      [] OTHER -> IF txState = "committed" THEN 5 ELSE 6

InRedeemTx == {"check", "checkLegacy", "ensure", "credit", "insert", "insertLegacy", "commit"}

C24_Step ==
    \A r \in Requests :
        req'[r].op = "redeem" =>
            LET a == Phase(pc[r], tx[r].state)
                b == Phase(pc'[r], tx'[r].state)
            IN
            /\ b = a \/ (a < 5 /\ b = a + 1) \/ (a < 5 /\ Phases[b] = "Aborted")
            \* one transaction: opened once, on the way into the check
            /\ (tx'[r].state = "open" /\ tx[r].state # "open")
                    => pc[r] = "begin" /\ tx[r].state = "none"
            /\ pc'[r] \in InRedeemTx => tx'[r].state \in {"open", "failed"}
            /\ Phases[b] = "Committed" /\ Phases[a] # "Committed" => pc[r] = "commit"
            /\ resp'[r].status = 200 => Phases[a] = "Committed" /\ tx[r].state = "committed"
\* C24: a redeem call passes Validating, CheckingPriorRedemption, Crediting,
\* Recording and Committed in this order, one after the other, or ends in
\* Aborted; the check, the credit and the insert run in one transaction,
\* opened once; the success response is sent only from Committed.
C24_PhasesInOrder == [][C24_Step]_vars

C24_Witness ==
    \E r, o \in Requests :
        /\ Succeeded(r) /\ layout = "current"
        /\ req[o].op = "redeem" /\ pc[o] = "done" /\ hist[o].insert = "23505"

\* C27: every committed redemption row of a current-schema code carries an
\* enable_time within the code's active window [start_time, end_time].
C27_RedemptionWithinWindow ==
    \A a \in promocode_activation :
        a.variant = "current"
            => \A p \in promocode : p.id = a.promocode_id => WithinWindow(p, a.enable_time)

\* ------------------------------------------------------------ login codes
Verifies(r) == req[r].op \in {"loginVerify", "verifyEmail"}
Tokened(r) == Verifies(r) /\ pc[r] = "done" /\ resp[r].status = 200

\* C25: for one issued code (one row of verifications) at most one verifying
\* request ever returns a token, concurrent requests with the same email and
\* code included.
C25_CodeIsOneTime ==
    \A r, o \in Requests :
        (r # o /\ Tokened(r) /\ Tokened(o)) => record[r].row # record[o].row

\* C28: whenever no login transaction is open, at most one row of
\* verifications exists for each user.
C28_OneRowPerUser ==
    (\A r \in Requests : ~InLoginTx(r))
        => \A u \in Users : Cardinality({v \in verifications : v.user_id = u}) <= 1

C29_Step ==
    \A r \in Requests :
        Verifies(r) =>
            LET matching == MatchingVerifications(req[r].email, req[r].code) IN
            \* the lookup lets through only a matching row that has not expired
            /\ (pc[r] = "verifySelect" /\ pc'[r] = "verifyBegin")
                => \E v \in matching : now <= v.expire_time /\ record'[r].row = {v}
            \* a wrong or an expired code: 400, and no table changes
            /\ (pc[r] = "verifySelect" /\ ~hist'[r].fault /\ pc'[r] # pc[r]
                    /\ \A v \in matching : now > v.expire_time)
                => /\ pc'[r] = "done"
                   /\ resp'[r] = Response(400, IF matching = {} THEN "Invalid code"
                                                ELSE "Code expired", FALSE)
                   /\ UNCHANGED <<users, verifications>>
            \* the token comes with the commit of the deleting transaction
            /\ (pc[r] # "done" /\ pc'[r] = "done" /\ resp'[r].status = 200)
                => /\ pc[r] = "verifyCommit" /\ tx[r].state = "open"
                   /\ tx'[r].state = "committed"
                   /\ record[r].row # {}
                   /\ verifications' = verifications \ tx[r].del
            \* a failed update, delete or commit: no token, nothing written
            /\ (pc[r] \in {"verifyUpdate", "delete", "verifyCommit"} /\ hist'[r].fault)
                => /\ pc'[r] = "done" /\ resp'[r].status = 500
                   /\ tx'[r].state = "rolledback"
                   /\ UNCHANGED <<users, verifications>>
\* C29: LoginViaEmailVerify and VerifyEmail return a token only if a row
\* matching email and code existed and was not expired when it was read, and
\* the transaction that deletes the user's rows committed; a wrong or an
\* expired code is answered 400 with no row changed; a delete or commit that
\* fails yields no token.
C29_TokenOnlyAfterCommittedDelete == [][C29_Step]_vars

C29_Witness ==
    \E r, o \in Requests :
        /\ Tokened(r)
        /\ Verifies(o) /\ resp[o] = Response(400, "Code expired", FALSE)

C30_Step ==
    \A r \in Requests :
        req[r].op = "login" =>
            \* the step into the delivery is the commit of the new code
            /\ (pc[r] # "loginSend" /\ pc'[r] = "loginSend")
                => /\ pc[r] = "loginCommit" /\ tx'[r].state = "committed"
                   /\ tx[r].ins # {} /\ tx[r].ins \subseteq verifications'
            \* the delivery, failed or not: 200, and the code stays
            /\ pc[r] = "loginSend" /\ pc'[r] # pc[r]
                => /\ hist'[r].sent \in {"delivered", "failed"}
                   /\ resp'[r] = MessageResponse("Verification code sent to email")
                   /\ verifications' = verifications
            /\ hist'[r].sent # "none" => pc[r] \in {"loginSend", "done"}
\* C30: LoginViaEmail commits the new code before it attempts the delivery;
\* a delivery that fails neither fails the request nor removes the code.
C30_CommitBeforeDelivery == [][C30_Step]_vars

C30_Witness ==
    \E r \in Requests :
        /\ req[r].op = "login" /\ pc[r] = "done"
        /\ hist[r].sent = "failed" /\ resp[r].status = 200
        /\ \E v \in verifications : v.id = r

\* ---------------------------------------------------------- transactions
TxOps == {"redeem"} \cup LoginOps

C23_Step ==
    \A r \in Requests :
        \* only the four handlers open a transaction
        /\ (tx'[r].state = "open" /\ tx[r].state # "open")
            => tx[r].state = "none" /\ req[r].op \in TxOps
        \* a handler that has ended has no transaction in progress
        /\ pc'[r] = "done" => tx'[r].state \in {"none", "committed", "rolledback"}
        \* what the handler does after its commit, the deferred rollback
        \* included, leaves the commit and the tables as they are
        /\ tx[r].state = "committed"
            => /\ tx'[r] = tx[r]
               /\ pc'[r] # pc[r] => UNCHANGED <<store, users, verifications>>
\* C23: every transaction opened by ActivatePromocode, LoginViaEmail,
\* LoginViaEmailVerify or VerifyEmail is committed or rolled back on every
\* path on which the handler returns, and the rollback that follows a
\* successful commit changes nothing.
C23_TransactionsAreClosed == [][C23_Step]_vars

C23_Witness ==
    \E r, o \in Requests :
        /\ req[r].op = "redeem" /\ pc[r] = "done" /\ tx[r].state = "rolledback"
        /\ req[o].op = "verifyEmail" /\ pc[o] = "done" /\ tx[o].state = "committed"
====
